---------------------------- MODULE Spec2Model ----------------------------
(***************************************************************************)
(* Ultra Log Manager (ULM): channel registry with token-bucket rate        *)
(* limiting, ingestion queue, log processor, in-memory store and file      *)
(* writer, modelled from Plugins/Source/ULM.                                *)
(*                                                                         *)
(* Conventions                                                             *)
(*  - A channel name (FString) is a sequence of tokens; the token "."      *)
(*    is the hierarchy separator, so "A.B" is <<"A", ".", "B">> and the    *)
(*    empty FString is << >>.                                              *)
(*  - EULMVerbosity is 0..3 (Message, Warning, Error, Critical).           *)
(*  - Time (FPlatformTime::Seconds) is counted in ticks, TicksPerSecond    *)
(*    ticks to the second.  The clock never reads 0: it is seconds since   *)
(*    boot (plus 16777216.0 on Windows).                                   *)
(*  - Token counts (float) are exact multiples of 1/TicksPerSecond token:  *)
(*    a count of n tokens is the integer n * TicksPerSecond, so the        *)
(*    refill DeltaTime * TokensPerSecond is DeltaTicks * TokensPerSecond   *)
(*    units with no rounding.                                              *)
(*  - DisplayColor / EffectiveColor are left out: nothing reads them.      *)
(***************************************************************************)
EXTENDS Integers, Sequences, FiniteSets, TLC

(***************************************************************************)
(* Bounds of the model                                                     *)
(***************************************************************************)
TicksPerSecond == 2

MaxTime == 4

MaxCalls == 5

MaxOps == 3

VARIABLES
    ChannelConfigs,   \* TMap<FString, FULMChannelConfig>
    ChannelStates,    \* TMap<FString, TUniquePtr<FULMChannelState>>
    RegistryLock,     \* FRWLock: "free", or the thread holding it for writing
    blocked,          \* threads waiting forever on a lock they hold themselves
    now,              \* FPlatformTime::Seconds(), in ticks
    calls,            \* observation log of the CanChannelLog calls made
    lastOp,           \* observation: the registry operation called last
    opCount,          \* number of registry operations called so far
    LogMessageQueue,  \* TQueue<FULMLogQueueEntry, EQueueMode::Spsc>
    QueueDiagnostics, \* FULMQueueDiagnostics: the counters
    LogEntries,       \* TMap<FString, TArray<FULMLogEntry>>
    MemoryTracker,    \* FULMMemoryTracker
    bFileLoggingEnabled,
    FileWriteQueue,   \* TQueue<FULMFileWriteEntry, EQueueMode::Spsc>
    LogProcessor,     \* FULMLogProcessor and the position of its thread
    FileWriter,       \* FULMFileWriter and the position of its thread
    Disk,             \* the log files
    LogRotator,       \* FULMLogRotator: Config, FileTracker.ChannelFiles, Diagnostics
    Threads,          \* the threads calling the log API
    Lifecycle,        \* position of the game thread in Deinitialize
    hist              \* observation: entries logged, enqueued, processed, forwarded

regVars == <<ChannelConfigs, ChannelStates, RegistryLock, blocked>>

obsVars == <<calls, lastOp, opCount>>

pipeVars ==
    <<LogMessageQueue, QueueDiagnostics, LogEntries, MemoryTracker,
      bFileLoggingEnabled, FileWriteQueue, LogProcessor, FileWriter, Disk,
      LogRotator, Threads, Lifecycle, hist>>

vars == <<regVars, now, obsVars, pipeVars>>

(***************************************************************************)
(* Values                                                                  *)
(***************************************************************************)
Message == 0

Critical == 3

EmptyName == << >>

DefaultName == <<"Default">>

Gameplay == <<"Gameplay">>

Token == TicksPerSecond

\* FULMRateLimit: default member initialisers
DefaultRateLimit == [TokensPerSecond |-> 20, BurstCapacity |-> 20]

\* FULMChannelConfig(): default member initialisers
DefaultConfig ==
    [bEnabled |-> TRUE, MinVerbosity |-> Message, RateLimit |-> DefaultRateLimit,
     MaxLogEntries |-> 1000, bInheritFromParent |-> TRUE]

\* FULMChannelState(): default member initialisers
NewChannelState ==
    [bEffectiveEnabled |-> TRUE, EffectiveMinVerbosity |-> Message,
     EffectiveRateLimit |-> DefaultRateLimit, EffectiveMaxEntries |-> 1000,
     CurrentTokens |-> 20 * Token, LastRefillTime |-> 0,
     ParentChannel |-> EmptyName, ChildChannels |-> << >>]

Max(a, b) == IF a >= b THEN a ELSE b

Min(a, b) == IF a <= b THEN a ELSE b

\* TMap::Emplace / Add: insert or overwrite
Put(f, k, v) == [x \in (DOMAIN f) \cup {k} |-> IF x = k THEN v ELSE f[x]]

\* TMap::Remove
Drop(f, k) == [x \in (DOMAIN f) \ {k} |-> f[x]]

\* TArray::AddUnique
AddUnique(s, e) == IF \E i \in 1..Len(s) : s[i] = e THEN s ELSE Append(s, e)

\* TArray::Remove(item): removes every occurrence
RECURSIVE RemoveItem(_, _)
RemoveItem(s, e) ==
    IF s = << >> THEN << >>
    ELSE IF Head(s) = e THEN RemoveItem(Tail(s), e)
         ELSE <<Head(s)>> \o RemoveItem(Tail(s), e)

Range(s) == {s[i] : i \in 1..Len(s)}

(***************************************************************************)
(* FULMChannelState                                                        *)
(***************************************************************************)
\* RefillTokens without the LastRefillTime update of the refill branch
RefillTokens_NoStamp(State, CurrentTime) ==
    IF State.LastRefillTime = 0
    THEN [State EXCEPT !.LastRefillTime = CurrentTime,
                       !.CurrentTokens = State.EffectiveRateLimit.BurstCapacity * Token]
    ELSE LET DeltaTime == CurrentTime - State.LastRefillTime
             TokensToAdd == DeltaTime * State.EffectiveRateLimit.TokensPerSecond
         IN IF DeltaTime > 0
            THEN [State EXCEPT !.CurrentTokens =
                                   Min(State.CurrentTokens + TokensToAdd,
                                       State.EffectiveRateLimit.BurstCapacity * Token)]
            ELSE State

RefillTokens(State, CurrentTime) ==
    IF State.LastRefillTime = 0
    THEN [State EXCEPT !.LastRefillTime = CurrentTime,
                       !.CurrentTokens = State.EffectiveRateLimit.BurstCapacity * Token]
    ELSE LET DeltaTime == CurrentTime - State.LastRefillTime
             TokensToAdd == DeltaTime * State.EffectiveRateLimit.TokensPerSecond
         IN IF DeltaTime > 0
            THEN [State EXCEPT !.CurrentTokens =
                                   Min(State.CurrentTokens + TokensToAdd,
                                       State.EffectiveRateLimit.BurstCapacity * Token),
                               !.LastRefillTime = CurrentTime]
            ELSE State

\* CanLog without the CurrentTokens -= 1.0f of an admitted call
CanLog_NoConsume(State, Verbosity, CurrentTime) ==
    IF ~State.bEffectiveEnabled \/ Verbosity < State.EffectiveMinVerbosity
    THEN [ok |-> FALSE, st |-> State]
    ELSE LET Refilled == RefillTokens(State, CurrentTime)
         IN IF Refilled.CurrentTokens >= 1 * Token
            THEN [ok |-> TRUE, st |-> Refilled]
            ELSE [ok |-> FALSE, st |-> Refilled]

\* CanLog with RefillTokens ahead of the enabled / severity test
CanLog_RefillFirst(State, Verbosity, CurrentTime) ==
    LET Refilled == RefillTokens(State, CurrentTime)
    IN IF ~State.bEffectiveEnabled \/ Verbosity < State.EffectiveMinVerbosity
       THEN [ok |-> FALSE, st |-> Refilled]
       ELSE IF Refilled.CurrentTokens >= 1 * Token
            THEN [ok |-> TRUE,
                  st |-> [Refilled EXCEPT !.CurrentTokens = @ - 1 * Token]]
            ELSE [ok |-> FALSE, st |-> Refilled]

\* Returns the decision and the state the call leaves behind.
CanLog(State, Verbosity, CurrentTime) ==
    IF ~State.bEffectiveEnabled \/ Verbosity < State.EffectiveMinVerbosity
    THEN [ok |-> FALSE, st |-> State]
    ELSE LET Refilled == RefillTokens(State, CurrentTime)
         IN IF Refilled.CurrentTokens >= 1 * Token
            THEN [ok |-> TRUE,
                  st |-> [Refilled EXCEPT !.CurrentTokens = @ - 1 * Token]]
            ELSE [ok |-> FALSE, st |-> Refilled]

UpdateEffectiveSettings(State, Config, HasParent, ParentState) ==
    IF Config.bInheritFromParent /\ HasParent
    THEN [State EXCEPT
            !.bEffectiveEnabled = ParentState.bEffectiveEnabled /\ Config.bEnabled,
            !.EffectiveMinVerbosity =
                Max(ParentState.EffectiveMinVerbosity, Config.MinVerbosity),
            !.EffectiveRateLimit =
                IF Config.RateLimit.TokensPerSecond > 0
                THEN Config.RateLimit ELSE ParentState.EffectiveRateLimit,
            !.EffectiveMaxEntries = Config.MaxLogEntries]
    ELSE [State EXCEPT
            !.bEffectiveEnabled = Config.bEnabled,
            !.EffectiveMinVerbosity = Config.MinVerbosity,
            !.EffectiveRateLimit = Config.RateLimit,
            !.EffectiveMaxEntries = Config.MaxLogEntries]

(***************************************************************************)
(* FULMChannelRegistry.  A registry value is [cfg, st]: the two maps.      *)
(***************************************************************************)
\* 1-based position of the last "." of the name, 0 when there is none
LastDot(ChannelName) ==
    LET dots == {i \in 1..Len(ChannelName) : ChannelName[i] = "."}
    IN IF dots = {} THEN 0 ELSE CHOOSE i \in dots : \A j \in dots : j <= i

\* OutParent of ParseChannelHierarchy
ParseChannelHierarchy(ChannelName) ==
    IF LastDot(ChannelName) = 0 THEN EmptyName
    ELSE SubSeq(ChannelName, 1, LastDot(ChannelName) - 1)

RECURSIVE RebuildEffectiveSettings(_, _)
RECURSIVE RebuildChildren(_, _, _)
RebuildEffectiveSettings(reg, ChannelName) ==
    IF ChannelName \notin DOMAIN reg.st \/ ChannelName \notin DOMAIN reg.cfg
    THEN reg
    ELSE LET State == reg.st[ChannelName]
             HasParent == State.ParentChannel # EmptyName
                          /\ State.ParentChannel \in DOMAIN reg.st
             ParentState == IF HasParent THEN reg.st[State.ParentChannel]
                            ELSE NewChannelState
             Updated == UpdateEffectiveSettings(State, reg.cfg[ChannelName],
                                                HasParent, ParentState)
             reg1 == [reg EXCEPT !.st[ChannelName] = Updated]
         IN RebuildChildren(reg1, ChannelName, 1)

\* the loop over State->ChildChannels of RebuildEffectiveSettings
RebuildChildren(reg, ChannelName, i) ==
    IF i > Len(reg.st[ChannelName].ChildChannels) THEN reg
    ELSE RebuildChildren(
            RebuildEffectiveSettings(reg, reg.st[ChannelName].ChildChannels[i]),
            ChannelName, i + 1)

RECURSIVE UpdateChildrenLoop(_, _, _)
UpdateChildrenLoop(reg, ParentChannel, i) ==
    IF i > Len(reg.st[ParentChannel].ChildChannels) THEN reg
    ELSE UpdateChildrenLoop(
            RebuildEffectiveSettings(reg, reg.st[ParentChannel].ChildChannels[i]),
            ParentChannel, i + 1)

UpdateChildChannels(reg, ParentChannel) ==
    IF ParentChannel \notin DOMAIN reg.st \/ ParentChannel \notin DOMAIN reg.cfg
    THEN reg
    ELSE UpdateChildrenLoop(reg, ParentChannel, 1)

\* The body of RegisterChannel under the write lock, the nested call for a
\* missing parent included.
RECURSIVE RegisterChannel(_, _, _)
RegisterChannel(reg, ChannelName, Config) ==
    IF ChannelName = EmptyName THEN reg
    ELSE
    LET ParentName == ParseChannelHierarchy(ChannelName)
        reg1 == IF ParentName # EmptyName /\ ParentName \notin DOMAIN reg.cfg
                THEN RegisterChannel(reg, ParentName, DefaultConfig)
                ELSE reg
        HasParent == ParentName # EmptyName /\ ParentName \in DOMAIN reg1.st
        ParentState == IF HasParent THEN reg1.st[ParentName] ELSE NewChannelState
        NewState == UpdateEffectiveSettings(
                        [NewChannelState EXCEPT !.ParentChannel = ParentName],
                        Config, HasParent, ParentState)
        st2 == IF HasParent
               THEN [reg1.st EXCEPT ![ParentName].ChildChannels =
                                        AddUnique(@, ChannelName)]
               ELSE reg1.st
        reg3 == [cfg |-> Put(reg1.cfg, ChannelName, Config),
                 st |-> Put(st2, ChannelName, NewState)]
    IN UpdateChildChannels(reg3, ChannelName)

\* FULMChannelRegistry(): RegisterChannel(TEXT("Default"))
NewRegistry ==
    RegisterChannel([cfg |-> << >>, st |-> << >>], DefaultName, DefaultConfig)

\* GetChannelState + FULMChannelState::CanLog at FPlatformTime::Seconds()
CanChannelLog(reg, ChannelName, Verbosity, CurrentTime) ==
    IF ChannelName \notin DOMAIN reg.st
    THEN [ok |-> FALSE, reg |-> reg]
    ELSE LET r == CanLog(reg.st[ChannelName], Verbosity, CurrentTime)
         IN [ok |-> r.ok, reg |-> [reg EXCEPT !.st[ChannelName] = r.st]]

Registry == [cfg |-> ChannelConfigs, st |-> ChannelStates]

\* the loop over State->ChildChannels of UnregisterChannel; P is State->ParentChannel
RECURSIVE ReparentChildren(_, _, _, _)
ReparentChildren(st, Children, P, i) ==
    IF i > Len(Children) THEN st
    ELSE LET ChildChannel == Children[i]
             st1 == IF ChildChannel \in DOMAIN st
                    THEN [st EXCEPT ![ChildChannel].ParentChannel = P]
                    ELSE st
             st2 == IF ChildChannel \in DOMAIN st /\ P # EmptyName /\ P \in DOMAIN st1
                    THEN [st1 EXCEPT ![P].ChildChannels = AddUnique(@, ChildChannel)]
                    ELSE st1
         IN ReparentChildren(st2, Children, P, i + 1)

\* UnregisterChannel without the test for "Default"
UnregisterChannel_AnyName(reg, ChannelName) ==
    LET st1 ==
            IF ChannelName \in DOMAIN reg.st
            THEN LET State == reg.st[ChannelName]
                     P == State.ParentChannel
                     stA == IF P # EmptyName /\ P \in DOMAIN reg.st
                            THEN [reg.st EXCEPT ![P].ChildChannels =
                                                    RemoveItem(@, ChannelName)]
                            ELSE reg.st
                 IN ReparentChildren(stA, State.ChildChannels, P, 1)
            ELSE reg.st
    IN [cfg |-> Drop(reg.cfg, ChannelName), st |-> Drop(st1, ChannelName)]

UnregisterChannel(reg, ChannelName) ==
    IF ChannelName = DefaultName THEN reg
    ELSE LET st1 ==
                 IF ChannelName \in DOMAIN reg.st
                 THEN LET State == reg.st[ChannelName]
                          P == State.ParentChannel
                          stA == IF P # EmptyName /\ P \in DOMAIN reg.st
                                 THEN [reg.st EXCEPT ![P].ChildChannels =
                                                         RemoveItem(@, ChannelName)]
                                 ELSE reg.st
                      IN ReparentChildren(stA, State.ChildChannels, P, 1)
                 ELSE reg.st
         IN [cfg |-> Drop(reg.cfg, ChannelName), st |-> Drop(st1, ChannelName)]

UpdateChannelConfig(reg, ChannelName, Config) ==
    IF ChannelName \in DOMAIN reg.cfg
    THEN RebuildEffectiveSettings([reg EXCEPT !.cfg[ChannelName] = Config], ChannelName)
    ELSE reg

\* SetChannelEnabled / SetChannelVerbosity up to the loop over the children
SetEnabledHere(reg, ChannelName, bEnabled) ==
    IF ChannelName \in DOMAIN reg.cfg
    THEN RebuildEffectiveSettings([reg EXCEPT !.cfg[ChannelName].bEnabled = bEnabled],
                                  ChannelName)
    ELSE reg

SetVerbosityHere(reg, ChannelName, MinVerbosity) ==
    IF ChannelName \in DOMAIN reg.cfg
    THEN RebuildEffectiveSettings(
             [reg EXCEPT !.cfg[ChannelName].MinVerbosity = MinVerbosity], ChannelName)
    ELSE reg

\* field is "bEnabled" or "MinVerbosity": the two bulk operations have one shape
SetHere(reg, ChannelName, field, value) ==
    IF field = "bEnabled" THEN SetEnabledHere(reg, ChannelName, value)
    ELSE SetVerbosityHere(reg, ChannelName, value)

RECURSIVE SetChannelField(_, _, _, _, _)
RECURSIVE SetChildrenField(_, _, _, _, _)
SetChannelField(reg, ChannelName, field, value, bRecursive) ==
    IF ChannelName \notin DOMAIN reg.cfg THEN reg
    ELSE LET reg1 == SetHere(reg, ChannelName, field, value)
         IN IF bRecursive /\ ChannelName \in DOMAIN reg1.st
            THEN SetChildrenField(reg1, ChannelName, field, value, 1)
            ELSE reg1

SetChildrenField(reg, ChannelName, field, value, i) ==
    IF i > Len(reg.st[ChannelName].ChildChannels) THEN reg
    ELSE SetChildrenField(
            SetChannelField(reg, reg.st[ChannelName].ChildChannels[i], field, value, TRUE),
            ChannelName, field, value, i + 1)

SetChannelEnabled(reg, ChannelName, bEnabled, bRecursive) ==
    SetChannelField(reg, ChannelName, "bEnabled", bEnabled, bRecursive)

SetChannelVerbosity(reg, ChannelName, MinVerbosity, bRecursive) ==
    SetChannelField(reg, ChannelName, "MinVerbosity", MinVerbosity, bRecursive)

\* RegisterChannel line 88-90: the call nests a RegisterChannel, which takes
\* FWriteScopeLock on RegistryLock while this thread already holds it
RegisterNests(reg, ChannelName) ==
    /\ ChannelName # EmptyName
    /\ ParseChannelHierarchy(ChannelName) # EmptyName
    /\ ParseChannelHierarchy(ChannelName) \notin DOMAIN reg.cfg

\* SetChannelEnabled / SetChannelVerbosity line 278-288: the call nests itself
\* for the first child, again under FWriteScopeLock
SetNests(reg, ChannelName, bRecursive) ==
    /\ bRecursive
    /\ ChannelName \in DOMAIN reg.cfg
    /\ ChannelName \in DOMAIN reg.st
    /\ reg.st[ChannelName].ChildChannels # << >>

NoOp == [op |-> "none"]

(***************************************************************************)
(* TQueue<T, EQueueMode::Spsc>: a singly linked list from the dummy node   *)
(* Tail to the node Head.  A queue value is [Nodes, Head, Tail, Fresh]:    *)
(* the allocated nodes by address, the two pointers and the address the    *)
(* next new TNode gets; NextNode 0 is nullptr.  Enqueue in Spsc mode is    *)
(* OldHead = Head; Head = NewNode; OldHead->NextNode = NewNode with plain  *)
(* loads and stores.                                                       *)
(***************************************************************************)
NoItem == << >>

\* TQueue(): Head = Tail = new TNode()
NewQueue ==
    [Nodes |-> (1 :> [Item |-> NoItem, NextNode |-> 0]),
     Head |-> 1, Tail |-> 1, Fresh |-> 2]

\* TNode* NewNode = new TNode(Item): the node gets the address q.Fresh
QNewNode(q, Item) ==
    [q EXCEPT !.Nodes = (q.Fresh :> [Item |-> Item, NextNode |-> 0]) @@ @,
              !.Fresh = @ + 1]

\* Head = NewNode
QSetHead(q, NewNode) == [q EXCEPT !.Head = NewNode]

\* OldHead->NextNode = NewNode; a store to a node already deleted by the
\* consumer lands in freed memory and leaves the list as it is
QLink(q, OldHead, NewNode) ==
    IF OldHead \in DOMAIN q.Nodes
    THEN [q EXCEPT !.Nodes[OldHead].NextNode = NewNode]
    ELSE q

\* Enqueue run by one thread with no other producer in between
Enqueue(q, Item) ==
    QLink(QSetHead(QNewNode(q, Item), q.Fresh), q.Head, q.Fresh)

IsEmpty(q) == q.Nodes[q.Tail].NextNode = 0

\* Dequeue: [ok, Item, q]
Dequeue(q) ==
    LET Popped == q.Nodes[q.Tail].NextNode
    IN IF Popped = 0
       THEN [ok |-> FALSE, Item |-> NoItem, q |-> q]
       ELSE [ok |-> TRUE, Item |-> q.Nodes[Popped].Item,
             q |-> [q EXCEPT !.Tail = Popped,
                             !.Nodes = [n \in (DOMAIN q.Nodes) \ {q.Tail} |->
                                          IF n = Popped
                                          THEN [q.Nodes[n] EXCEPT !.Item = NoItem]
                                          ELSE q.Nodes[n]]]]

\* the items from Tail to the end of the chain, oldest first
RECURSIVE QItemsFrom(_, _)
QItemsFrom(q, n) ==
    IF q.Nodes[n].NextNode = 0 THEN << >>
    ELSE <<q.Nodes[q.Nodes[n].NextNode].Item>> \o QItemsFrom(q, q.Nodes[n].NextNode)

QItems(q) == QItemsFrom(q, q.Tail)

(***************************************************************************)
(* FULMMemoryTracker.  A tracker value is [TotalMemoryUsed, TotalEntries,  *)
(* ChannelMemoryUsage, MemoryBudget, TrimmingEvents].  The text of a       *)
(* message is <<thread, number>>, a text of MsgLen characters, or          *)
(* <<thread, number, length>>, a text of length characters.                *)
(***************************************************************************)
MsgLen == 8

\* FString::Len() of the text of a message
MessageLen(Text) == IF Len(Text) >= 3 THEN Text[3] ELSE MsgLen

SizeofFULMLogEntry == 56

SizeofFString == 16

SizeofTCHAR == 2

DefaultMemoryBudget == 50 * 1024 * 1024

\* FString::Len() of one token of a channel name
TokenLen(tok) ==
    CASE tok = "Gameplay" -> 8
      [] tok = "Network" -> 7
      [] tok = "Default" -> 7
      [] tok = "Subsystem" -> 9
      [] OTHER -> 1

RECURSIVE NameLen(_)
NameLen(ChannelName) ==
    IF ChannelName = << >> THEN 0
    ELSE TokenLen(Head(ChannelName)) + NameLen(Tail(ChannelName))

CalculateLogEntrySize(Entry) ==
    SizeofFULMLogEntry + MessageLen(Entry.Message) * SizeofTCHAR
        + NameLen(Entry.Channel) * SizeofTCHAR + SizeofFString * 2

NewMemoryTracker(Budget) ==
    [TotalMemoryUsed |-> 0, TotalEntries |-> 0, ChannelMemoryUsage |-> << >>,
     MemoryBudget |-> Budget, TrimmingEvents |-> 0]

AddMemoryUsage(mt, ChannelName, MemorySize) ==
    [mt EXCEPT !.TotalMemoryUsed = @ + MemorySize,
               !.TotalEntries = @ + 1,
               !.ChannelMemoryUsage =
                   IF ChannelName \in DOMAIN @
                   THEN [@ EXCEPT ![ChannelName] = @ + MemorySize]
                   ELSE Put(@, ChannelName, MemorySize)]

RemoveMemoryUsage(mt, ChannelName, MemorySize) ==
    [mt EXCEPT !.TotalMemoryUsed = @ - MemorySize,
               !.TotalEntries = @ - 1,
               !.ChannelMemoryUsage =
                   IF ChannelName \in DOMAIN @
                   THEN IF @[ChannelName] > MemorySize
                        THEN [@ EXCEPT ![ChannelName] = @ - MemorySize]
                        ELSE Drop(@, ChannelName)
                   ELSE @]

GetChannelMemoryUsage(mt, ChannelName) ==
    IF ChannelName \in DOMAIN mt.ChannelMemoryUsage
    THEN mt.ChannelMemoryUsage[ChannelName] ELSE 0

\* WouldExceedBudget comparing the current usage alone with the budget
WouldExceedBudget_IgnoresSize(mt, AdditionalMemory) ==
    mt.TotalMemoryUsed > mt.MemoryBudget

WouldExceedBudget(mt, AdditionalMemory) ==
    mt.TotalMemoryUsed + AdditionalMemory > mt.MemoryBudget

\* FULMMemoryTracker::Reset
Reset(mt) ==
    [mt EXCEPT !.TotalMemoryUsed = 0, !.TotalEntries = 0, !.TrimmingEvents = 0,
               !.ChannelMemoryUsage = << >>]

\* FULMMemoryTracker::SetMemoryBudget
SetMemoryBudget(mt, NewBudget) == [mt EXCEPT !.MemoryBudget = NewBudget]

(***************************************************************************)
(* UULMSubsystem: storage.  The operators work on a value S holding the    *)
(* members a call touches: [reg, LogEntries, MemoryTracker,                *)
(* FileWriteQueue, bFileLoggingEnabled, HasFileWriter, Wake, Forwarded];   *)
(* Wake records a FileWriter->WakeUp() and Forwarded the lines handed to   *)
(* FileWriteQueue.  The ULM_LOG diagnostics the plugin writes about itself *)
(* are left out.                                                           *)
(***************************************************************************)
Subsystem == <<"Subsystem">>

ULM == <<"ULM">>

Network == <<"Network">>

\* ULM_CHANNEL_LIST
MasterList ==
    {ULM, Gameplay, Network, <<"Performance">>, <<"Debug">>, <<"AI">>,
     <<"Physics">>, <<"Audio">>, <<"Animation">>, <<"UI">>, Subsystem, <<"Custom">>}

IsChannelInMasterList(ChannelName) == ChannelName \in MasterList

GetChannelConfig(reg, ChannelName) ==
    IF ChannelName \in DOMAIN reg.cfg THEN reg.cfg[ChannelName] ELSE DefaultConfig

\* UULMSubsystem::RegisterChannel
SubsystemRegisterChannel(S, ChannelName, Config) ==
    IF ~IsChannelInMasterList(ChannelName) THEN S
    ELSE [S EXCEPT !.reg = RegisterChannel(@, ChannelName, Config),
                   !.LogEntries = IF ChannelName \in DOMAIN @ THEN @
                                  ELSE Put(@, ChannelName, << >>)]

RECURSIVE SumEntrySizes(_, _)
SumEntrySizes(Entries, n) ==
    IF n = 0 THEN 0
    ELSE CalculateLogEntrySize(Entries[n]) + SumEntrySizes(Entries, n - 1)

\* TrimChannelForMemory removing from the end of the array
TrimChannelForMemory_Newest(S, ChannelName, EntriesToRemove) ==
    IF \/ ChannelName \notin DOMAIN S.LogEntries
       \/ EntriesToRemove <= 0
    THEN S
    ELSE IF S.LogEntries[ChannelName] = << >> THEN S
    ELSE LET ChannelEntries == S.LogEntries[ChannelName]
             n == Min(EntriesToRemove, Len(ChannelEntries))
         IN [S EXCEPT !.LogEntries[ChannelName] =
                          SubSeq(ChannelEntries, 1, Len(ChannelEntries) - n),
                      !.MemoryTracker =
                          RemoveMemoryUsage(@, ChannelName,
                                            SumEntrySizes(ChannelEntries, n))]

TrimChannelForMemory(S, ChannelName, EntriesToRemove) ==
    IF \/ ChannelName \notin DOMAIN S.LogEntries
       \/ EntriesToRemove <= 0
    THEN S
    ELSE IF S.LogEntries[ChannelName] = << >> THEN S
    ELSE LET ChannelEntries == S.LogEntries[ChannelName]
             n == Min(EntriesToRemove, Len(ChannelEntries))
         IN [S EXCEPT !.LogEntries[ChannelName] =
                          SubSeq(ChannelEntries, n + 1, Len(ChannelEntries)),
                      !.MemoryTracker =
                          RemoveMemoryUsage(@, ChannelName,
                                            SumEntrySizes(ChannelEntries, n))]

\* ChannelsByUsage of TrimMemoryBudget: [Key, Value] pairs, largest first
RECURSIVE ChannelsByUsage(_, _)
ChannelsByUsage(mt, Channels) ==
    IF Channels = {} THEN << >>
    ELSE LET top == CHOOSE c \in Channels : \A x \in Channels :
                        GetChannelMemoryUsage(mt, c) >= GetChannelMemoryUsage(mt, x)
         IN <<[Key |-> top, Value |-> GetChannelMemoryUsage(mt, top)]>>
                \o ChannelsByUsage(mt, Channels \ {top})

\* the loop "Trim from largest channels first" of TrimMemoryBudget
RECURSIVE TrimLargestFirst(_, _, _, _, _)
TrimLargestFirst(S, Order, i, TotalReduced, TargetReduction) ==
    IF i > Len(Order) \/ TotalReduced >= TargetReduction THEN S
    ELSE LET ChannelName == Order[i].Key
             ChannelSize == Order[i].Value
             Num == Len(S.LogEntries[ChannelName])
             RemainingReduction == TargetReduction - TotalReduced
             RemovalPercent == IF 2 * RemainingReduction > ChannelSize THEN 75
                               ELSE IF 4 * RemainingReduction > ChannelSize THEN 50
                               ELSE 25
             EntriesToRemove == Min(Max(1, (Num * RemovalPercent) \div 100), Num)
             S1 == TrimChannelForMemory(S, ChannelName, EntriesToRemove)
             ReducedThisChannel ==
                 GetChannelMemoryUsage(S.MemoryTracker, ChannelName)
                     - GetChannelMemoryUsage(S1.MemoryTracker, ChannelName)
         IN IF Num = 0
            THEN TrimLargestFirst(S, Order, i + 1, TotalReduced, TargetReduction)
            ELSE TrimLargestFirst(S1, Order, i + 1,
                                  TotalReduced + ReducedThisChannel, TargetReduction)

\* TargetPercent of TrimMemoryBudget, in hundredths
TrimTargetPercent(CurrentUsage, Budget) ==
    IF CurrentUsage * 10 > Budget * 12 THEN 50
    ELSE IF CurrentUsage * 10 > Budget * 11 THEN 60
    ELSE 75

TrimMemoryBudget(S) ==
    LET CurrentUsage == S.MemoryTracker.TotalMemoryUsed
        Budget == S.MemoryTracker.MemoryBudget
        ReasonableBuffer == (Budget * 2) \div 100
        TargetPercent == TrimTargetPercent(CurrentUsage, Budget)
        TargetReduction == CurrentUsage - (Budget * TargetPercent) \div 100
        Trimmed == TrimLargestFirst(
                       S, ChannelsByUsage(S.MemoryTracker, DOMAIN S.LogEntries),
                       1, 0, TargetReduction)
    IN IF CurrentUsage <= Budget - ReasonableBuffer THEN S
       ELSE [Trimmed EXCEPT !.MemoryTracker.TrimmingEvents = @ + 1]

\* FULMJSONFormatter::VerbosityToJSONLevel
VerbosityToJSONLevel(Verbosity) ==
    CASE Verbosity = 0 -> "INFO"
      [] Verbosity = 1 -> "WARN"
      [] Verbosity = 2 -> "ERROR"
      [] Verbosity = 3 -> "CRITICAL"
      [] OTHER -> "INFO"

\* FormatLogEntryForFile -> FormatAsJSON: the fields of the line.
\* GetLocalTimestamp(Entry.Timestamp) formats FDateTime::Now(), the time of
\* the formatting, and does not read its argument.
FormatLogEntryForFile(Entry, CurrentTime) ==
    [timestamp |-> CurrentTime, channel |-> Entry.Channel,
     level |-> VerbosityToJSONLevel(Entry.Verbosity),
     thread_id |-> Entry.ThreadId, message |-> Entry.Message]

(***************************************************************************)
(* FULMLogRotator and its FULMLogFileTracker.  A rotator value is [Config, *)
(* ChannelFiles, TotalRotations]; ChannelFiles[channel] is the array of    *)
(* FULMLogFileInfo.  The path ULM_<channel>_<YYYYMMDD>_<index>.json under  *)
(* the log directory is <<"ULM", channel, day, index>>; the names of the   *)
(* master list hold no '_', so ParseLogFileName finds the index again.     *)
(***************************************************************************)
TicksPerDay == 86400 * TicksPerSecond

\* FDateTime::ToString("%Y%m%d") of the time
DateString(CurrentTime) == CurrentTime \div TicksPerDay

\* FULMRotationConfig(): default member initialisers
DefaultRotationConfig == [MaxFileSizeBytes |-> 104857600, RetentionDays |-> 7]

\* MakeUnique<FULMLogRotator>(this); SetRotationConfig(RotationConfig)
NewLogRotatorWith(Config) ==
    [Config |-> Config, ChannelFiles |-> << >>, TotalRotations |-> 0]

NewLogRotator == NewLogRotatorWith(DefaultRotationConfig)

LogFilePath(ChannelName, Day, FileIndex) == <<"ULM", ChannelName, Day, FileIndex>>

\* FULMLogFileInfo(FilePath, ChannelName, CreationDate, FileIndex)
NewLogFileInfo(FilePath, ChannelName, CreationDate, FileIndex) ==
    [FilePath |-> FilePath, ChannelName |-> ChannelName,
     CreationDate |-> CreationDate, FileSize |-> 0, FileIndex |-> FileIndex,
     bIsActive |-> FALSE]

\* the FULMLogFileInfo array of the channel
FilesOf(rot, ChannelName) ==
    IF ChannelName \in DOMAIN rot.ChannelFiles THEN rot.ChannelFiles[ChannelName]
    ELSE << >>

\* FULMLogFileTracker::GetActiveFile: the position of the first active file, 0
\* for nullptr
GetActiveFile(rot, ChannelName) ==
    LET Files == FilesOf(rot, ChannelName)
        Active == {i \in DOMAIN Files : Files[i].bIsActive}
    IN IF Active = {} THEN 0 ELSE CHOOSE i \in Active : \A j \in Active : i <= j

\* FULMLogRotator::GetActiveFilePath
GetActiveFilePath(rot, ChannelName, CurrentTime) ==
    IF GetActiveFile(rot, ChannelName) # 0
    THEN FilesOf(rot, ChannelName)[GetActiveFile(rot, ChannelName)].FilePath
    ELSE LogFilePath(ChannelName, DateString(CurrentTime), 1)

\* UULMSubsystem::GenerateLogFilePath; LogRotator is set by Initialize
GenerateLogFilePath(rot, ChannelName, CurrentTime) ==
    GetActiveFilePath(rot, ChannelName, CurrentTime)

StoreProcessedLogEntry(S, Entry, CurrentTime) ==
    LET EntryMemorySize == CalculateLogEntrySize(Entry)
        FileEntry == [LogLine |-> FormatLogEntryForFile(Entry, CurrentTime),
                      FilePath |-> GenerateLogFilePath(S.LogRotator, Entry.Channel,
                                                       CurrentTime),
                      Timestamp |-> Entry.Timestamp]
        \* if (!LogEntries.Contains(Entry.Channel)) ...
        FindOrAdd(S1) ==
            IF Entry.Channel \in DOMAIN S1.LogEntries THEN S1
            ELSE [S1 EXCEPT
                    !.LogEntries = Put(@, Entry.Channel, << >>),
                    !.reg = IF Entry.Channel \in DOMAIN S1.reg.st THEN @
                            ELSE RegisterChannel(@, Entry.Channel, DefaultConfig)]
        \* ChannelEntries->Add(Entry); MemoryTracker.AddMemoryUsage(...)
        Add(S2) ==
            [S2 EXCEPT
               !.LogEntries[Entry.Channel] = Append(@, Entry),
               !.MemoryTracker = AddMemoryUsage(@, Entry.Channel, EntryMemorySize)]
        \* FileWriteQueue.Enqueue(FileEntry); FileWriter->WakeUp()
        Forward(S3) ==
            IF S3.bFileLoggingEnabled /\ S3.HasFileWriter /\ Entry.Channel # ULM
            THEN [S3 EXCEPT !.FileWriteQueue = Enqueue(@, FileEntry),
                            !.Wake = TRUE,
                            !.Forwarded = Append(@, FileEntry)]
            ELSE S3
        \* the channel's MaxLogEntries
        Limit(S4) ==
            LET Config == GetChannelConfig(S4.reg, Entry.Channel)
                Num == Len(S4.LogEntries[Entry.Channel])
            IN IF Num > Config.MaxLogEntries
               THEN TrimChannelForMemory(S4, Entry.Channel, Num - Config.MaxLogEntries)
               ELSE S4
        \* after the trim of the memory budget, if there was one
        Store(S1) ==
            IF WouldExceedBudget(S1.MemoryTracker, EntryMemorySize) THEN S1
            ELSE Limit(Forward(Add(FindOrAdd(S1))))
    IN IF ~IsChannelInMasterList(Entry.Channel) THEN S
       ELSE Store(IF WouldExceedBudget(S.MemoryTracker, EntryMemorySize)
                  THEN TrimMemoryBudget(S) ELSE S)

\* ProcessLogEntry: FULMLogQueueEntry -> FULMLogEntry, then store
ProcessLogEntry(S, QueueEntry, CurrentTime) ==
    StoreProcessedLogEntry(
        S,
        [Message |-> QueueEntry.Message, Channel |-> QueueEntry.Channel,
         Verbosity |-> QueueEntry.Verbosity, Timestamp |-> QueueEntry.Timestamp,
         ThreadId |-> QueueEntry.ThreadId],
        CurrentTime)

\* GetLogEntries(Channel, MaxEntries) for a non-empty Channel
GetLogEntries(Entries, Channel, MaxEntries) ==
    LET Result == IF Channel \in DOMAIN Entries THEN Entries[Channel] ELSE << >>
    IN IF MaxEntries > 0 /\ Len(Result) > MaxEntries
       THEN SubSeq(Result, Len(Result) - MaxEntries + 1, Len(Result))
       ELSE Result

\* GetQueueSize
GetQueueSize(qd) == Max(0, qd.EnqueueCount - qd.DequeueCount)

(***************************************************************************)
(* The threads.  Threads[t] is a thread that calls the log API: its        *)
(* position in ULMLogMessage / StoreLogEntryInternal / TQueue::Enqueue and *)
(* the locals it holds there.  GameThread also runs Deinitialize;          *)
(* Lifecycle is its position in it ("none": no subsystem constructed).     *)
(* LogProcessor.pc and FileWriter.pc are the positions of the two workers  *)
(* in their Run().                                                         *)
(***************************************************************************)
BATCH_SIZE == 64

MAX_QUEUE_SIZE == 10000

DEFAULT_BATCH_SIZE == 64

FlushIntervalSeconds == 5

GameThread == "game"

IdleThread == [pc |-> "idle", n |-> 0, Entry |-> NoItem, OldHead |-> 0, NewNode |-> 0]

NewQueueDiagnostics ==
    [EnqueueCount |-> 0, DequeueCount |-> 0, ProcessedCount |-> 0, DroppedCount |-> 0]

\* FULMLogProcessor after Init(), about to enter Run()
NewLogProcessor ==
    [pc |-> "loop", ProcessedCount |-> 0, bStopRequested |-> FALSE,
     WakeUpEvent |-> FALSE]

\* FULMFileWriter after Init(), about to enter Run(); Created is FALSE when
\* FRunnableThread::Create returned no thread and FileWriter stayed nullptr
NewFileWriter(Created, CurrentTime) ==
    [Created |-> Created, pc |-> IF Created THEN "loop" ELSE "done",
     bStopRequested |-> FALSE, WakeUpEvent |-> FALSE,
     LastFlushTime |-> CurrentTime, OpenFiles |-> {},
     Diagnostics |-> [WriteCount |-> 0, BatchCount |-> 0, FailedWrites |-> 0]]

\* no eviction pass of TrimMemoryBudget observed yet
NoEviction ==
    [passes |-> 0, before |-> 0, budget |-> 0, target |-> 0, after |-> 0,
     channels |-> 0, putBack |-> 0]

NoHistory ==
    [logCalls |-> << >>, enqueued |-> << >>, processed |-> << >>,
     forwarded |-> << >>, enqueuedAtStop |-> 0, useAfterFree |-> FALSE,
     stores |-> << >>, eviction |-> NoEviction]

\* the members of the subsystem the storage operators work on
Sub ==
    [reg |-> Registry, LogEntries |-> LogEntries, MemoryTracker |-> MemoryTracker,
     FileWriteQueue |-> FileWriteQueue, bFileLoggingEnabled |-> bFileLoggingEnabled,
     HasFileWriter |-> FileWriter.Created, LogRotator |-> LogRotator,
     Wake |-> FALSE, Forwarded |-> << >>]

\* no subsystem: the state of the pipeline in the specifications of the
\* registry on its own
NoPipeline ==
    /\ LogMessageQueue = NewQueue
    /\ QueueDiagnostics = NewQueueDiagnostics
    /\ LogEntries = << >>
    /\ MemoryTracker = NewMemoryTracker(DefaultMemoryBudget)
    /\ bFileLoggingEnabled = FALSE
    /\ FileWriteQueue = NewQueue
    /\ LogProcessor = [NewLogProcessor EXCEPT !.pc = "done"]
    /\ FileWriter = NewFileWriter(FALSE, 1)
    /\ Disk = << >>
    /\ LogRotator = NewLogRotator
    /\ Threads = << >>
    /\ Lifecycle = "none"
    /\ hist = NoHistory

\* UULMSubsystem::Initialize with auto-registration off, then the game
\* thread registering Gameplay with Config
InitSubsystem(Config, FileLogging, WriterCreated, ThreadIds) ==
    LET S0 == [reg |-> NewRegistry, LogEntries |-> << >>,
               MemoryTracker |-> NewMemoryTracker(DefaultMemoryBudget),
               FileWriteQueue |-> NewQueue, bFileLoggingEnabled |-> FileLogging,
               HasFileWriter |-> WriterCreated, LogRotator |-> NewLogRotator,
               Wake |-> FALSE, Forwarded |-> << >>]
        S1 == SubsystemRegisterChannel(S0, Subsystem, DefaultConfig)
        S2 == SubsystemRegisterChannel(S1, Gameplay, Config)
    IN /\ ChannelConfigs = S2.reg.cfg
       /\ ChannelStates = S2.reg.st
       /\ RegistryLock = "free"
       /\ blocked = {}
       /\ now = 1
       /\ calls = << >>
       /\ lastOp = NoOp
       /\ opCount = 0
       /\ LogMessageQueue = NewQueue
       /\ QueueDiagnostics = NewQueueDiagnostics
       /\ LogEntries = S2.LogEntries
       /\ MemoryTracker = S2.MemoryTracker
       /\ bFileLoggingEnabled = FileLogging
       /\ FileWriteQueue = NewQueue
       /\ LogProcessor = NewLogProcessor
       /\ FileWriter = NewFileWriter(WriterCreated, 1)
       /\ Disk = << >>
       /\ LogRotator = NewLogRotator
       /\ Threads = [t \in ThreadIds |-> IdleThread]
       /\ Lifecycle = "running"
       /\ hist = NoHistory

\* FULMLogQueueEntry(Message, Channel, Verbosity): the k-th message of thread t
QueueEntryOf(t, k, ChannelName, Verbosity, CurrentTime) ==
    [Message |-> <<t, k>>, Channel |-> ChannelName, Verbosity |-> Verbosity,
     Timestamp |-> CurrentTime, ThreadId |-> t]

\* what the caller passed and what the channel's bucket held when
\* ULMLogMessage was called
LogCallRecord(t, ChannelName, Verbosity, admitted, enqueued, Entry) ==
    LET known == ChannelName \in DOMAIN ChannelStates
        State == IF known THEN ChannelStates[ChannelName] ELSE NewChannelState
    IN [thread |-> t, ch |-> ChannelName, v |-> Verbosity, time |-> now,
        gate |-> known /\ State.bEffectiveEnabled
                 /\ Verbosity >= State.EffectiveMinVerbosity,
        fresh |-> State.LastRefillTime = 0,
        burst |-> State.EffectiveRateLimit.BurstCapacity,
        admitted |-> admitted, enqueued |-> enqueued, entry |-> Entry]

\* ULMLogMessage without the GetQueueSize() >= MAX_QUEUE_SIZE test of
\* StoreLogEntryInternal
ULMLogMessage_NoCapacityTest(reg, q, qd, QueueEntry, CurrentTime) ==
    LET r1 == CanChannelLog(reg, QueueEntry.Channel, QueueEntry.Verbosity, CurrentTime)
        r2 == CanChannelLog(r1.reg, QueueEntry.Channel, QueueEntry.Verbosity,
                            CurrentTime)
    IN IF ~r1.ok
       THEN [reg |-> r1.reg, q |-> q, qd |-> qd,
             admitted |-> FALSE, enqueued |-> FALSE]
       ELSE IF ~r2.ok
       THEN [reg |-> r2.reg, q |-> q, qd |-> qd,
             admitted |-> TRUE, enqueued |-> FALSE]
       ELSE [reg |-> r2.reg, q |-> Enqueue(q, QueueEntry),
             qd |-> [qd EXCEPT !.EnqueueCount = @ + 1],
             admitted |-> TRUE, enqueued |-> TRUE]

\* ULMLogMessage with the StoreLogEntryInternal it ends in, run by one thread
\* with no other producer in between: [reg, q, qd, admitted, enqueued]
ULMLogMessage(reg, q, qd, QueueEntry, CurrentTime) ==
    LET r1 == CanChannelLog(reg, QueueEntry.Channel, QueueEntry.Verbosity, CurrentTime)
        r2 == CanChannelLog(r1.reg, QueueEntry.Channel, QueueEntry.Verbosity,
                            CurrentTime)
    IN IF ~r1.ok
       THEN [reg |-> r1.reg, q |-> q, qd |-> qd,
             admitted |-> FALSE, enqueued |-> FALSE]
       ELSE IF ~r2.ok
       THEN [reg |-> r2.reg, q |-> q, qd |-> qd,
             admitted |-> TRUE, enqueued |-> FALSE]
       ELSE IF GetQueueSize(qd) >= MAX_QUEUE_SIZE
       THEN [reg |-> r2.reg, q |-> q, qd |-> [qd EXCEPT !.DroppedCount = @ + 1],
             admitted |-> TRUE, enqueued |-> FALSE]
       ELSE [reg |-> r2.reg, q |-> Enqueue(q, QueueEntry),
             qd |-> [qd EXCEPT !.EnqueueCount = @ + 1],
             admitted |-> TRUE, enqueued |-> TRUE]

\* thread t calls ULM_LOG(ChannelName, Verbosity, ...) and the call runs to
\* its return; after Deinitialize the globals are null and the call falls back
LogCall(t, ChannelName, Verbosity, MaxLogs) ==
    /\ Lifecycle # "none"
    /\ t = GameThread => Lifecycle \in {"running", "down"}
    /\ Threads[t].pc = "idle"
    /\ Threads[t].n < MaxLogs
    /\ RegistryLock = "free"
    /\ Threads' = [Threads EXCEPT ![t].n = @ + 1]
    /\ IF Lifecycle = "down"
       THEN UNCHANGED <<ChannelStates, LogMessageQueue, QueueDiagnostics,
                        LogProcessor, hist>>
       ELSE LET QueueEntry == QueueEntryOf(t, Threads[t].n + 1, ChannelName,
                                           Verbosity, now)
                r == ULMLogMessage(Registry, LogMessageQueue, QueueDiagnostics,
                                   QueueEntry, now)
            IN /\ ChannelStates' = r.reg.st
               /\ LogMessageQueue' = r.q
               /\ QueueDiagnostics' = r.qd
               /\ LogProcessor' = IF r.enqueued
                                  THEN [LogProcessor EXCEPT !.WakeUpEvent = TRUE]
                                  ELSE LogProcessor
               /\ hist' = [hist EXCEPT
                             !.logCalls = Append(@, LogCallRecord(
                                 t, ChannelName, Verbosity, r.admitted, r.enqueued,
                                 QueueEntry)),
                             !.enqueued = IF r.enqueued
                                          THEN Append(@, QueueEntry.Message)
                                          ELSE @]
    /\ UNCHANGED <<ChannelConfigs, RegistryLock, blocked, now, obsVars, LogEntries,
                   MemoryTracker, bFileLoggingEnabled, FileWriteQueue, FileWriter,
                   Disk, LogRotator, Lifecycle>>

(***************************************************************************)
(* A producer thread step by step: the interleavings of concurrent         *)
(* callers of ULMLogMessage.                                               *)
(***************************************************************************)
producerRest ==
    <<ChannelConfigs, RegistryLock, blocked, now, obsVars, LogEntries, MemoryTracker,
      bFileLoggingEnabled, FileWriteQueue, FileWriter, Disk, LogRotator, Lifecycle>>

\* ULMLogMessage up to its CanChannelLog test
ProducerAdmit(t, ChannelName, Verbosity, MaxLogs) ==
    /\ Lifecycle \notin {"none", "down"}
    /\ Threads[t].pc = "idle"
    /\ Threads[t].n < MaxLogs
    /\ RegistryLock = "free"
    /\ LET r == CanChannelLog(Registry, ChannelName, Verbosity, now)
       IN /\ ChannelStates' = r.reg.st
          /\ Threads' = [Threads EXCEPT
                ![t].n = @ + 1,
                ![t].pc = IF r.ok THEN "store" ELSE "idle",
                ![t].Entry = IF r.ok
                             THEN QueueEntryOf(t, Threads[t].n + 1, ChannelName,
                                               Verbosity, now)
                             ELSE NoItem]
    /\ UNCHANGED <<producerRest, LogMessageQueue, QueueDiagnostics, LogProcessor, hist>>

\* StoreLogEntryInternal up to the call of LogMessageQueue.Enqueue, and the
\* new TNode(Item) of Enqueue
ProducerStore(t) ==
    /\ Threads[t].pc = "store"
    /\ RegistryLock = "free"
    /\ LET e == Threads[t].Entry
           r == CanChannelLog(Registry, e.Channel, e.Verbosity, now)
       IN /\ ChannelStates' = r.reg.st
          /\ IF ~r.ok
             THEN /\ Threads' = [Threads EXCEPT ![t].pc = "idle", ![t].Entry = NoItem]
                  /\ UNCHANGED <<LogMessageQueue, QueueDiagnostics>>
             ELSE IF GetQueueSize(QueueDiagnostics) >= MAX_QUEUE_SIZE
             THEN /\ Threads' = [Threads EXCEPT ![t].pc = "idle", ![t].Entry = NoItem]
                  /\ QueueDiagnostics' = [QueueDiagnostics EXCEPT !.DroppedCount = @ + 1]
                  /\ UNCHANGED LogMessageQueue
             ELSE /\ Threads' = [Threads EXCEPT
                        ![t].pc = "enqRead",
                        ![t].Entry = [e EXCEPT !.Timestamp = now],
                        ![t].NewNode = LogMessageQueue.Fresh]
                  /\ LogMessageQueue' =
                        QNewNode(LogMessageQueue, [e EXCEPT !.Timestamp = now])
                  /\ UNCHANGED QueueDiagnostics
    /\ UNCHANGED <<producerRest, LogProcessor, hist>>

\* Enqueue: OldHead = Head
ProducerEnqRead(t) ==
    /\ Threads[t].pc = "enqRead"
    /\ Threads' = [Threads EXCEPT ![t].pc = "enqHead",
                                  ![t].OldHead = LogMessageQueue.Head]
    /\ UNCHANGED <<producerRest, ChannelStates, LogMessageQueue, QueueDiagnostics,
                   LogProcessor, hist>>

\* Enqueue: Head = NewNode
ProducerEnqHead(t) ==
    /\ Threads[t].pc = "enqHead"
    /\ LogMessageQueue' = QSetHead(LogMessageQueue, Threads[t].NewNode)
    /\ Threads' = [Threads EXCEPT ![t].pc = "enqLink"]
    /\ UNCHANGED <<producerRest, ChannelStates, QueueDiagnostics, LogProcessor, hist>>

\* Enqueue: OldHead->NextNode = NewNode
ProducerEnqLink(t) ==
    /\ Threads[t].pc = "enqLink"
    /\ LogMessageQueue' =
           QLink(LogMessageQueue, Threads[t].OldHead, Threads[t].NewNode)
    /\ hist' = [hist EXCEPT !.useAfterFree =
                   @ \/ Threads[t].OldHead \notin DOMAIN LogMessageQueue.Nodes]
    /\ Threads' = [Threads EXCEPT ![t].pc = "enqueued"]
    /\ UNCHANGED <<producerRest, ChannelStates, QueueDiagnostics, LogProcessor>>

\* StoreLogEntryInternal after Enqueue returned true
ProducerEnqueued(t) ==
    /\ Threads[t].pc = "enqueued"
    /\ QueueDiagnostics' = [QueueDiagnostics EXCEPT !.EnqueueCount = @ + 1]
    /\ LogProcessor' = [LogProcessor EXCEPT !.WakeUpEvent = TRUE]
    /\ hist' = [hist EXCEPT !.enqueued = Append(@, Threads[t].Entry.Message)]
    /\ Threads' = [Threads EXCEPT ![t] = [IdleThread EXCEPT !.n = Threads[t].n]]
    /\ UNCHANGED <<producerRest, ChannelStates, LogMessageQueue>>

(***************************************************************************)
(* FULMLogProcessor::Run                                                   *)
(***************************************************************************)
processorRest ==
    <<RegistryLock, blocked, now, obsVars, bFileLoggingEnabled, Disk, LogRotator,
      Threads, Lifecycle>>

\* while (!bStopRequested) ... ProcessBatch(); after the loop: ProcessBatch()
ProcessorLoop ==
    /\ LogProcessor.pc = "loop"
    /\ LogProcessor' = [LogProcessor EXCEPT
                          !.pc = IF LogProcessor.bStopRequested THEN "final"
                                 ELSE "batch",
                          !.ProcessedCount = 0]
    /\ UNCHANGED <<processorRest, ChannelConfigs, ChannelStates, LogMessageQueue,
                   QueueDiagnostics, LogEntries, MemoryTracker, FileWriteQueue,
                   FileWriter, hist>>

\* one turn of the loop of ProcessBatch, or its exit
ProcessBatchStep ==
    /\ LogProcessor.pc \in {"batch", "final"}
    /\ RegistryLock = "free"
    /\ \E d \in {Dequeue(LogMessageQueue)} :
          IF LogProcessor.ProcessedCount < BATCH_SIZE /\ d.ok
          THEN \E S \in {ProcessLogEntry(Sub, d.Item, now)} :
                  /\ LogMessageQueue' = d.q
                  /\ ChannelConfigs' = S.reg.cfg
                  /\ ChannelStates' = S.reg.st
                  /\ LogEntries' = S.LogEntries
                  /\ MemoryTracker' = S.MemoryTracker
                  /\ FileWriteQueue' = S.FileWriteQueue
                  /\ FileWriter' = IF S.Wake
                                   THEN [FileWriter EXCEPT !.WakeUpEvent = TRUE]
                                   ELSE FileWriter
                  /\ QueueDiagnostics' = [QueueDiagnostics EXCEPT
                                            !.DequeueCount = @ + 1,
                                            !.ProcessedCount = @ + 1]
                  /\ LogProcessor' = [LogProcessor EXCEPT !.ProcessedCount = @ + 1]
                  /\ hist' = [hist EXCEPT !.processed = Append(@, d.Item.Message),
                                          !.forwarded = @ \o S.Forwarded]
          ELSE /\ LogProcessor' = [LogProcessor EXCEPT
                                     !.pc = IF LogProcessor.pc = "batch" THEN "check"
                                            ELSE "done",
                                     !.ProcessedCount = 0]
               /\ UNCHANGED <<ChannelConfigs, ChannelStates, LogMessageQueue,
                              QueueDiagnostics, LogEntries, MemoryTracker,
                              FileWriteQueue, FileWriter, hist>>
    /\ UNCHANGED processorRest

\* if (MessageQueue.IsEmpty())
ProcessorCheckEmpty ==
    /\ LogProcessor.pc = "check"
    /\ LogProcessor' = [LogProcessor EXCEPT
                          !.pc = IF IsEmpty(LogMessageQueue) THEN "wait" ELSE "loop"]
    /\ UNCHANGED <<processorRest, ChannelConfigs, ChannelStates, LogMessageQueue,
                   QueueDiagnostics, LogEntries, MemoryTracker, FileWriteQueue,
                   FileWriter, hist>>

\* WakeUpEvent->Wait(SLEEP_TIME_MS) returns: the auto-reset event was
\* triggered, or the millisecond is over
ProcessorWait ==
    /\ LogProcessor.pc = "wait"
    /\ LogProcessor' = [LogProcessor EXCEPT !.pc = "loop", !.WakeUpEvent = FALSE]
    /\ UNCHANGED <<processorRest, ChannelConfigs, ChannelStates, LogMessageQueue,
                   QueueDiagnostics, LogEntries, MemoryTracker, FileWriteQueue,
                   FileWriter, hist>>

(***************************************************************************)
(* FULMFileWriter.  The operators work on W = [q, fw, Disk]: the write     *)
(* queue, the writer object and the files.  Disk[path] is [Lines,          *)
(* Flushed]: the lines serialized to the archive of the file and how many  *)
(* of them a Flush or Close has pushed out.  Failing is the set of paths   *)
(* whose CreateFileWriter returns no archive.  Serialize is taken to       *)
(* succeed.                                                                *)
(***************************************************************************)
RECURSIVE DequeueBatch(_, _, _)
DequeueBatch(q, Batch, Size) ==
    IF Len(Batch) < Size /\ Dequeue(q).ok
    THEN DequeueBatch(Dequeue(q).q, Append(Batch, Dequeue(q).Item), Size)
    ELSE [q |-> q, Batch |-> Batch]

\* the keys of FileGroups in the order ProcessBatch added them
RECURSIVE FileGroupKeys(_)
FileGroupKeys(Batch) ==
    IF Batch = << >> THEN << >>
    ELSE LET Front == FileGroupKeys(SubSeq(Batch, 1, Len(Batch) - 1))
         IN AddUnique(Front, Batch[Len(Batch)].FilePath)

\* FileGroups[FilePath] with the lines of the batch newest first
RECURSIVE FileGroupLines_NewestFirst(_, _)
FileGroupLines_NewestFirst(Batch, FilePath) ==
    IF Batch = << >> THEN << >>
    ELSE IF Head(Batch).FilePath = FilePath
         THEN FileGroupLines_NewestFirst(Tail(Batch), FilePath) \o <<Head(Batch).LogLine>>
         ELSE FileGroupLines_NewestFirst(Tail(Batch), FilePath)

\* FileGroups[FilePath]
RECURSIVE FileGroupLines(_, _)
FileGroupLines(Batch, FilePath) ==
    IF Batch = << >> THEN << >>
    ELSE IF Head(Batch).FilePath = FilePath
         THEN <<Head(Batch).LogLine>> \o FileGroupLines(Tail(Batch), FilePath)
         ELSE FileGroupLines(Tail(Batch), FilePath)

\* WriteToFile counting a write for a file that could not be opened
WriteToFile_CountsFailure(W, FilePath, Lines, Failing) ==
    IF FilePath \notin W.fw.OpenFiles /\ FilePath \in Failing
    THEN [W EXCEPT !.fw.Diagnostics.FailedWrites = @ + 1,
                   !.fw.Diagnostics.WriteCount = @ + 1]
    ELSE [W EXCEPT
            !.fw.OpenFiles = @ \cup {FilePath},
            !.fw.Diagnostics.WriteCount = @ + 1,
            !.Disk = IF FilePath \in DOMAIN @
                     THEN [@ EXCEPT ![FilePath].Lines = @ \o Lines]
                     ELSE Put(@, FilePath, [Lines |-> Lines, Flushed |-> 0])]

WriteToFile(W, FilePath, Lines, Failing) ==
    IF FilePath \notin W.fw.OpenFiles /\ FilePath \in Failing
    THEN [W EXCEPT !.fw.Diagnostics.FailedWrites = @ + 1]
    ELSE [W EXCEPT
            !.fw.OpenFiles = @ \cup {FilePath},
            !.fw.Diagnostics.WriteCount = @ + 1,
            !.Disk = IF FilePath \in DOMAIN @
                     THEN [@ EXCEPT ![FilePath].Lines = @ \o Lines]
                     ELSE Put(@, FilePath, [Lines |-> Lines, Flushed |-> 0])]

RECURSIVE WriteGroups(_, _, _, _, _)
WriteGroups(W, Batch, Keys, i, Failing) ==
    IF i > Len(Keys) THEN W
    ELSE WriteGroups(
            WriteToFile(W, Keys[i], FileGroupLines(Batch, Keys[i]), Failing),
            Batch, Keys, i + 1, Failing)

FileWriterProcessBatch(W, Batch, Failing) ==
    [WriteGroups(W, Batch, FileGroupKeys(Batch), 1, Failing)
        EXCEPT !.fw.Diagnostics.BatchCount = @ + 1]

\* d, the batch taken from the queue, is bound once
ProcessWriteQueue(W, Failing) ==
    IF IsEmpty(W.q) THEN W
    ELSE CHOOSE R \in
            {IF Len(d.Batch) > 0
             THEN FileWriterProcessBatch([W EXCEPT !.q = d.q], d.Batch, Failing)
             ELSE W : d \in {DequeueBatch(W.q, << >>, DEFAULT_BATCH_SIZE)}} : TRUE

FlushAllFiles(W) ==
    [W EXCEPT !.Disk = [p \in DOMAIN W.Disk |->
                          IF p \in W.fw.OpenFiles
                          THEN [Lines |-> W.Disk[p].Lines,
                                Flushed |-> Len(W.Disk[p].Lines)]
                          ELSE W.Disk[p]]]

\* FArchive::Close flushes what the archive holds
CloseAllFiles(W) == [FlushAllFiles(W) EXCEPT !.fw.OpenFiles = {}]

ShouldFlush(fw, CurrentTime) ==
    CurrentTime - fw.LastFlushTime >= FlushIntervalSeconds * TicksPerSecond

WriterView == [q |-> FileWriteQueue, fw |-> FileWriter, Disk |-> Disk]

\* the paths a CreateFileWriter may be called for
QueuedPaths == {QItems(FileWriteQueue)[i].FilePath : i \in 1..Len(QItems(FileWriteQueue))}

writerRest ==
    <<regVars, now, obsVars, LogMessageQueue, QueueDiagnostics, LogEntries,
      MemoryTracker, bFileLoggingEnabled, LogProcessor, LogRotator, Threads,
      Lifecycle, hist>>

\* while (!bStopRequested.Load())
WriterLoop ==
    /\ FileWriter.Created
    /\ FileWriter.pc = "loop"
    /\ FileWriter' = [FileWriter EXCEPT
                        !.pc = IF FileWriter.bStopRequested THEN "final" ELSE "work"]
    /\ UNCHANGED <<writerRest, FileWriteQueue, Disk>>

\* ProcessWriteQueue(); if (ShouldFlush()) { FlushAllFiles(); ... }
WriterWork ==
    /\ FileWriter.pc = "work"
    /\ UNCHANGED writerRest
    /\ \E Failing \in SUBSET QueuedPaths :
          \E W1 \in {ProcessWriteQueue(WriterView, Failing)} :
          \E W2 \in {IF ShouldFlush(W1.fw, now)
                      THEN [FlushAllFiles(W1) EXCEPT !.fw.LastFlushTime = now]
                      ELSE W1} :
             /\ FileWriteQueue' = W2.q
             /\ FileWriter' = [W2.fw EXCEPT !.pc = "check"]
             /\ Disk' = W2.Disk

\* if (WriteQueue.IsEmpty())
WriterCheckEmpty ==
    /\ FileWriter.pc = "check"
    /\ FileWriter' = [FileWriter EXCEPT
                        !.pc = IF IsEmpty(FileWriteQueue) THEN "wait" ELSE "loop"]
    /\ UNCHANGED <<writerRest, FileWriteQueue, Disk>>

\* WakeUpEvent->Wait(100 ms) returns: triggered, or the time is over
WriterWait ==
    /\ FileWriter.pc = "wait"
    /\ FileWriter' = [FileWriter EXCEPT !.pc = "loop", !.WakeUpEvent = FALSE]
    /\ UNCHANGED <<writerRest, FileWriteQueue, Disk>>

\* after the loop: ProcessWriteQueue()
WriterFinalDrain ==
    /\ FileWriter.pc = "final"
    /\ UNCHANGED writerRest
    /\ \E Failing \in SUBSET QueuedPaths :
          \E W1 \in {ProcessWriteQueue(WriterView, Failing)} :
             /\ FileWriteQueue' = W1.q
             /\ FileWriter' = [W1.fw EXCEPT !.pc = "close"]
             /\ Disk' = W1.Disk

\* FlushAllFiles(); CloseAllFiles(); return 0
WriterClose ==
    /\ FileWriter.pc = "close"
    /\ LET W1 == CloseAllFiles(WriterView)
       IN /\ FileWriter' = [W1.fw EXCEPT !.pc = "done"]
          /\ Disk' = W1.Disk
    /\ UNCHANGED <<writerRest, FileWriteQueue>>

(***************************************************************************)
(* UULMSubsystem::Deinitialize, run by the game thread                     *)
(***************************************************************************)
deinitRest ==
    <<RegistryLock, blocked, now, obsVars, LogMessageQueue, QueueDiagnostics,
      MemoryTracker, bFileLoggingEnabled, FileWriteQueue, Disk, LogRotator, Threads>>

\* LogProcessor->RequestStop()
DeinitStopProcessor ==
    /\ Lifecycle = "running"
    /\ Threads[GameThread].pc = "idle"
    /\ Lifecycle' = "stopWriter"
    /\ LogProcessor' = [LogProcessor EXCEPT !.bStopRequested = TRUE,
                                            !.WakeUpEvent = TRUE]
    /\ hist' = [hist EXCEPT !.enqueuedAtStop = Len(hist.enqueued)]
    /\ UNCHANGED <<deinitRest, ChannelConfigs, ChannelStates, LogEntries, FileWriter>>

\* Deinitialize without the FileWriter->RequestStop()
DeinitStopWriter_NoRequest ==
    /\ Lifecycle = "stopWriter"
    /\ Lifecycle' = "joinProcessor"
    /\ UNCHANGED <<deinitRest, ChannelConfigs, ChannelStates, LogEntries,
                   LogProcessor, FileWriter, hist>>

\* if (FileWriter) FileWriter->RequestStop()
DeinitStopWriter ==
    /\ Lifecycle = "stopWriter"
    /\ Lifecycle' = "joinProcessor"
    /\ FileWriter' = IF FileWriter.Created
                     THEN [FileWriter EXCEPT !.bStopRequested = TRUE,
                                             !.WakeUpEvent = TRUE]
                     ELSE FileWriter
    /\ UNCHANGED <<deinitRest, ChannelConfigs, ChannelStates, LogEntries,
                   LogProcessor, hist>>

\* ProcessorThread->WaitForCompletion()
DeinitJoinProcessor ==
    /\ Lifecycle = "joinProcessor"
    /\ LogProcessor.pc = "done"
    /\ Lifecycle' = "joinWriter"
    /\ UNCHANGED <<deinitRest, ChannelConfigs, ChannelStates, LogEntries,
                   LogProcessor, FileWriter, hist>>

\* if (FileWriterThread) FileWriterThread->WaitForCompletion()
DeinitJoinWriter ==
    /\ Lifecycle = "joinWriter"
    /\ FileWriter.pc = "done"
    /\ Lifecycle' = "cleanup"
    /\ UNCHANGED <<deinitRest, ChannelConfigs, ChannelStates, LogEntries,
                   LogProcessor, FileWriter, hist>>

\* delete the workers, clear the globals, LogEntries.Empty(),
\* ChannelRegistry.Reset()
DeinitCleanup ==
    /\ Lifecycle = "cleanup"
    /\ Lifecycle' = "down"
    /\ FileWriter' = [FileWriter EXCEPT !.Created = FALSE]
    /\ LogEntries' = << >>
    /\ ChannelConfigs' = << >>
    /\ ChannelStates' = << >>
    /\ UNCHANGED <<deinitRest, LogProcessor, hist>>


(***************************************************************************)
(* Rate limiter on its own: one registered channel, CanChannelLog calls    *)
(* and the passing of time.                                                *)
(***************************************************************************)
BucketRates == {1, 2}

BucketBursts == {1, 2, 3}

BucketConfigs ==
    {[bEnabled |-> e, MinVerbosity |-> m,
      RateLimit |-> [TokensPerSecond |-> r, BurstCapacity |-> b],
      MaxLogEntries |-> 100, bInheritFromParent |-> TRUE] :
        e \in BOOLEAN, m \in {Message, Message + 1}, r \in BucketRates, b \in BucketBursts}

InitBucket ==
    /\ \E Config \in BucketConfigs :
          LET reg == RegisterChannel(NewRegistry, Gameplay, Config)
          IN /\ ChannelConfigs = reg.cfg
             /\ ChannelStates = reg.st
    /\ RegistryLock = "free"
    /\ blocked = {}
    /\ now = 1
    /\ calls = << >>
    /\ lastOp = NoOp
    /\ opCount = 0
    /\ NoPipeline

\* FULMChannelRegistry::CanChannelLog(ChannelName, Verbosity), observed
CanChannelLogCall(ChannelName, Verbosity) ==
    /\ Len(calls) < MaxCalls
    /\ RegistryLock = "free"
    /\ LET r == CanChannelLog(Registry, ChannelName, Verbosity, now)
       IN /\ ChannelStates' = r.reg.st
          /\ calls' = Append(calls,
                [ch |-> ChannelName, t |-> now, v |-> Verbosity, ok |-> r.ok,
                 known |-> ChannelName \in DOMAIN ChannelStates,
                 before |-> IF ChannelName \in DOMAIN ChannelStates
                            THEN ChannelStates[ChannelName] ELSE NewChannelState,
                 after |-> IF ChannelName \in DOMAIN ChannelStates
                           THEN r.reg.st[ChannelName] ELSE NewChannelState])
    /\ UNCHANGED <<ChannelConfigs, RegistryLock, blocked, now, lastOp, opCount,
                   pipeVars>>

\* the clock advances
Tick ==
    /\ now < MaxTime
    /\ now' = now + 1
    /\ UNCHANGED <<regVars, obsVars, pipeVars>>

NextBucket ==
    \/ \E v \in {Message, Message + 1} : CanChannelLogCall(Gameplay, v)
    \/ Tick

SpecBucket == InitBucket /\ [][NextBucket]_vars

\* the call got past the enabled / severity test of CanLog
GatePass(c) ==
    c.known /\ c.before.bEffectiveEnabled /\ c.v >= c.before.EffectiveMinVerbosity

\* number of calls among calls[i..j] on the channel of call i that passed the gate
GatePassed(i, j) ==
    Cardinality({m \in i..j : calls[m].ch = calls[i].ch /\ GatePass(calls[m])})

\* C2: on a bucket not used before, C = burst capacity consecutive calls at one
\* instant with sufficient severity on an enabled channel all return true and
\* the (C+1)-th call at that instant returns false.
C2_BurstThenDeny ==
    \A i \in 1..Len(calls) :
        (GatePass(calls[i]) /\ calls[i].before.LastRefillTime = 0) =>
            \A j \in i..Len(calls) :
                (calls[j].ch = calls[i].ch /\ calls[j].t = calls[i].t
                 /\ GatePass(calls[j])) =>
                    (calls[j].ok <=>
                        GatePassed(i, j) <= calls[i].before.EffectiveRateLimit.BurstCapacity)

C2_Witness ==
    /\ Len(calls) >= 4
    /\ \A i \in 1..4 : GatePass(calls[i]) /\ calls[i].t = calls[1].t
    /\ calls[1].before.LastRefillTime = 0
    /\ calls[1].before.EffectiveRateLimit.BurstCapacity = 3
    /\ calls[1].ok /\ calls[2].ok /\ calls[3].ok /\ ~calls[4].ok

\* j is the first call after i on the same channel that passed the gate
NextGatePass(i, j) ==
    /\ i < j
    /\ calls[j].ch = calls[i].ch
    /\ GatePass(calls[j])
    /\ \A m \in (i + 1)..(j - 1) : ~(calls[m].ch = calls[i].ch /\ GatePass(calls[m]))

\* call i was admitted and left less than one token; call j is the next one and
\* comes exactly 1/R seconds later
EmptiedThenWaited(i, j) ==
    /\ GatePass(calls[i]) /\ calls[i].ok
    /\ calls[i].after.CurrentTokens < 1 * Token
    /\ NextGatePass(i, j)
    /\ (calls[j].t - calls[i].t) * calls[i].after.EffectiveRateLimit.TokensPerSecond
           = TicksPerSecond

\* C3: once a burst has emptied the bucket, exactly 1/R seconds later exactly
\* one more call succeeds and the call after it at that instant is denied.
C3_OneTokenAfterWait ==
    \A i \in 1..Len(calls) : \A j \in 1..Len(calls) :
        EmptiedThenWaited(i, j) =>
            /\ calls[j].ok
            /\ \A k \in 1..Len(calls) :
                   (NextGatePass(j, k) /\ calls[k].t = calls[j].t) => ~calls[k].ok

C3_Witness ==
    \E i, j, k \in 1..Len(calls) :
        /\ EmptiedThenWaited(i, j)
        /\ NextGatePass(j, k) /\ calls[k].t = calls[j].t
        /\ calls[j].ok /\ ~calls[k].ok


(***************************************************************************)
(* The registry on its own: one thread calling the registry operations.    *)
(* Each operation holds RegistryLock for writing from entry to return, so  *)
(* it is one step.  FRWLock is not recursive: a nested FWriteScopeLock on  *)
(* the lock the thread already holds never returns (SRW lock), or fails    *)
(* with EDEADLK that is ignored where checks are compiled out and the call *)
(* goes on; the model takes either outcome.                                *)
(***************************************************************************)
A == <<"A">>

AB == <<"A", ".", "B">>

ABC == <<"A", ".", "B", ".", "C">>

RegNames == {A, AB, ABC}

Unconfigured == [TokensPerSecond |-> 0, BurstCapacity |-> 0]

RegConfigs ==
    {DefaultConfig,
     [bEnabled |-> FALSE, MinVerbosity |-> 1,
      RateLimit |-> [TokensPerSecond |-> 5, BurstCapacity |-> 5],
      MaxLogEntries |-> 100, bInheritFromParent |-> TRUE],
     [bEnabled |-> TRUE, MinVerbosity |-> 2, RateLimit |-> Unconfigured,
      MaxLogEntries |-> 500, bInheritFromParent |-> TRUE],
     [bEnabled |-> TRUE, MinVerbosity |-> Message,
      RateLimit |-> [TokensPerSecond |-> 5, BurstCapacity |-> 5],
      MaxLogEntries |-> 100, bInheritFromParent |-> FALSE]}

InitRegistry ==
    /\ ChannelConfigs = NewRegistry.cfg
    /\ ChannelStates = NewRegistry.st
    /\ RegistryLock = "free"
    /\ blocked = {}
    /\ now = 1
    /\ calls = << >>
    /\ lastOp = NoOp
    /\ opCount = 0
    /\ NoPipeline

\* what the caller passed and what the registry held when the call was made
Observe(op, ChannelName, arg, done) ==
    [op |-> op, name |-> ChannelName, arg |-> arg, done |-> done,
     existed |-> ChannelName \in DOMAIN ChannelStates,
     parentMissing |-> RegisterNests(Registry, ChannelName),
     preParent |-> IF ChannelName \in DOMAIN ChannelStates
                   THEN ChannelStates[ChannelName].ParentChannel ELSE EmptyName,
     preChildren |-> {c \in DOMAIN ChannelStates :
                         ChannelStates[c].ParentChannel = ChannelName}]

\* the operation ran to its return and left the registry reg
Returns(reg, obs) ==
    /\ ChannelConfigs' = reg.cfg
    /\ ChannelStates' = reg.st
    /\ lastOp' = obs
    /\ opCount' = opCount + 1
    /\ UNCHANGED <<RegistryLock, blocked, now, calls, pipeVars>>

\* the operation stopped at a nested FWriteScopeLock, the registry being reg
SelfDeadlocks(reg, obs) ==
    /\ ChannelConfigs' = reg.cfg
    /\ ChannelStates' = reg.st
    /\ RegistryLock' = "caller"
    /\ blocked' = blocked \cup {"caller"}
    /\ lastOp' = obs
    /\ opCount' = opCount + 1
    /\ UNCHANGED <<now, calls, pipeVars>>

CallRegisterChannel(ChannelName, Config) ==
    /\ RegistryLock = "free"
    /\ opCount < MaxOps
    /\ \/ Returns(RegisterChannel(Registry, ChannelName, Config),
                  Observe("register", ChannelName, Config, TRUE))
       \/ /\ RegisterNests(Registry, ChannelName)
          /\ SelfDeadlocks(Registry, Observe("register", ChannelName, Config, FALSE))

CallUnregisterChannel(ChannelName) ==
    /\ RegistryLock = "free"
    /\ opCount < MaxOps
    /\ Returns(UnregisterChannel(Registry, ChannelName),
               Observe("unregister", ChannelName, FALSE, TRUE))

CallUpdateChannelConfig(ChannelName, Config) ==
    /\ RegistryLock = "free"
    /\ opCount < MaxOps
    /\ Returns(UpdateChannelConfig(Registry, ChannelName, Config),
               Observe("update", ChannelName, Config, TRUE))

CallSetChannelEnabled(ChannelName, bEnabled, bRecursive) ==
    /\ RegistryLock = "free"
    /\ opCount < MaxOps
    /\ \/ Returns(SetChannelEnabled(Registry, ChannelName, bEnabled, bRecursive),
                  Observe("set_enabled", ChannelName, bEnabled, TRUE))
       \/ /\ SetNests(Registry, ChannelName, bRecursive)
          /\ SelfDeadlocks(SetEnabledHere(Registry, ChannelName, bEnabled),
                           Observe("set_enabled", ChannelName, bEnabled, FALSE))

CallSetChannelVerbosity(ChannelName, MinVerbosity, bRecursive) ==
    /\ RegistryLock = "free"
    /\ opCount < MaxOps
    /\ \/ Returns(SetChannelVerbosity(Registry, ChannelName, MinVerbosity, bRecursive),
                  Observe("set_verbosity", ChannelName, MinVerbosity, TRUE))
       \/ /\ SetNests(Registry, ChannelName, bRecursive)
          /\ SelfDeadlocks(SetVerbosityHere(Registry, ChannelName, MinVerbosity),
                           Observe("set_verbosity", ChannelName, MinVerbosity, FALSE))

NextRegistry ==
    \/ \E n \in RegNames, c \in RegConfigs : CallRegisterChannel(n, c)
    \/ \E n \in RegNames \cup {DefaultName} : CallUnregisterChannel(n)
    \/ \E n \in RegNames, c \in RegConfigs : CallUpdateChannelConfig(n, c)
    \/ \E n \in RegNames, b \in BOOLEAN, r \in BOOLEAN : CallSetChannelEnabled(n, b, r)
    \/ \E n \in RegNames, v \in {1, Critical}, r \in BOOLEAN :
           CallSetChannelVerbosity(n, v, r)

SpecRegistry == InitRegistry /\ [][NextRegistry]_vars

Registered(n) == n \in DOMAIN ChannelStates

\* d is registered and X is on its chain of ParentChannel names
RECURSIVE DescendsFrom(_, _, _)
DescendsFrom(d, X, fuel) ==
    /\ fuel > 0
    /\ Registered(d)
    /\ \/ ChannelStates[d].ParentChannel = X
       \/ DescendsFrom(ChannelStates[d].ParentChannel, X, fuel - 1)

Descendants(X) ==
    {d \in DOMAIN ChannelStates : DescendsFrom(d, X, Cardinality(DOMAIN ChannelStates))}

\* d inherits: its config says so and its parent is registered
Inherits(d) ==
    /\ ChannelConfigs[d].bInheritFromParent
    /\ ChannelStates[d].ParentChannel # EmptyName
    /\ Registered(ChannelStates[d].ParentChannel)

\* the resolution rule of an inheriting channel against its parent's snapshot
ResolutionRule(d) ==
    LET self == ChannelConfigs[d]
        eff == ChannelStates[d]
        parent == ChannelStates[ChannelStates[d].ParentChannel]
    IN /\ eff.bEffectiveEnabled = (parent.bEffectiveEnabled /\ self.bEnabled)
       /\ eff.EffectiveMinVerbosity =
              Max(parent.EffectiveMinVerbosity, self.MinVerbosity)
       /\ eff.EffectiveRateLimit =
              IF self.RateLimit.TokensPerSecond > 0 THEN self.RateLimit
              ELSE parent.EffectiveRateLimit
       /\ eff.EffectiveMaxEntries = self.MaxLogEntries

\* the effective settings of a channel that does not inherit are its own
OwnSettings(d) ==
    LET self == ChannelConfigs[d]
        eff == ChannelStates[d]
    IN /\ eff.bEffectiveEnabled = self.bEnabled
       /\ eff.EffectiveMinVerbosity = self.MinVerbosity
       /\ eff.EffectiveRateLimit = self.RateLimit
       /\ eff.EffectiveMaxEntries = self.MaxLogEntries

Recomputed(d) == IF Inherits(d) THEN ResolutionRule(d) ELSE OwnSettings(d)

\* C7: re-registering a registered name replaces its declared config and
\* recomputes the effective settings of every descendant from the new config.
C7_ReRegisterCascades ==
    (lastOp.op = "register" /\ lastOp.existed /\ lastOp.done) =>
        /\ Registered(lastOp.name)
        /\ ChannelConfigs[lastOp.name] = lastOp.arg
        /\ \A d \in Descendants(lastOp.name) : Recomputed(d)

\* C8: when update_config, set_enabled or set_verbosity on a channel has
\* returned, every inheriting descendant of it satisfies the resolution rule
\* against its parent's effective snapshot.
C8_DescendantsResolved ==
    (lastOp.op \in {"update", "set_enabled", "set_verbosity"} /\ lastOp.done) =>
        \A d \in Descendants(lastOp.name) : Inherits(d) => ResolutionRule(d)

\* C9: registering a dotted name "A.B" while "A" is not registered leaves both
\* registered, "A" with the default config, "A.B" with parent "A" and "A" with
\* "A.B" in its child set.
C9_AncestorAutoCreated ==
    (lastOp.op = "register" /\ lastOp.parentMissing) =>
        LET P == ParseChannelHierarchy(lastOp.name)
        IN /\ Registered(lastOp.name) /\ Registered(P)
           /\ ChannelConfigs[P] = DefaultConfig
           /\ ChannelStates[lastOp.name].ParentChannel = P
           /\ lastOp.name \in Range(ChannelStates[P].ChildChannels)

\* C10: unregistering a channel that has children sets each child's parent to
\* the channel's former parent (and adds the child to that parent's child set
\* when it is registered), removes the channel, keeps every child registered,
\* and leaves no channel whose parent name is the removed channel.
C10_ChildrenReparented ==
    (lastOp.op = "unregister" /\ lastOp.existed /\ lastOp.done
     /\ lastOp.name # DefaultName /\ lastOp.preChildren # {}) =>
        /\ ~Registered(lastOp.name)
        /\ \A c \in lastOp.preChildren :
               /\ Registered(c)
               /\ ChannelStates[c].ParentChannel = lastOp.preParent
               /\ Registered(lastOp.preParent) =>
                      c \in Range(ChannelStates[lastOp.preParent].ChildChannels)
        /\ \A x \in DOMAIN ChannelStates :
               ChannelStates[x].ParentChannel # lastOp.name

(***************************************************************************)
(* The log path: the game thread logging to Gameplay, the clock and the    *)
(* Log Processor.  File logging is off; the File Writer, which then only   *)
(* polls its empty queue, takes no step here.                              *)
(***************************************************************************)
MaxLogCalls == 6

LogConfigs ==
    {[bEnabled |-> TRUE, MinVerbosity |-> Message,
      RateLimit |-> [TokensPerSecond |-> r, BurstCapacity |-> b],
      MaxLogEntries |-> 100, bInheritFromParent |-> TRUE] :
        r \in {5}, b \in {2, 5}}

InitLog == \E Config \in LogConfigs : InitSubsystem(Config, FALSE, TRUE, {GameThread})

NextLog ==
    \/ LogCall(GameThread, Gameplay, Message, MaxLogCalls)
    \/ Tick
    \/ ProcessorLoop
    \/ ProcessBatchStep
    \/ ProcessorCheckEmpty
    \/ ProcessorWait

SpecLog == InitLog /\ [][NextLog]_vars

\* the processor has drained: it found the queue empty and waits
Drained == LogProcessor.pc = "wait" /\ IsEmpty(LogMessageQueue)

\* number of log calls among i..j on the channel of call i that passed the
\* enabled / severity test
LogGatePassed(i, j) ==
    Cardinality({m \in i..j : hist.logCalls[m].ch = hist.logCalls[i].ch
                              /\ hist.logCalls[m].gate})

\* the entries of the log calls i..j
RECURSIVE EntriesOfCalls(_, _)
EntriesOfCalls(i, j) ==
    IF i > j THEN << >>
    ELSE <<hist.logCalls[i].entry>> \o EntriesOfCalls(i + 1, j)

\* C1: for a registered, enabled channel with burst capacity C whose bucket is
\* fresh, C immediate log calls are all admitted and enqueued, the (C+1)-th
\* immediate call is denied, and once the processor has drained,
\* get_entries(channel, 10) is exactly those C entries, timestamps ascending.
C1_BurstLoggedEndToEnd ==
    \A i \in 1..Len(hist.logCalls) :
        LET first == hist.logCalls[i]
        IN (first.gate /\ first.fresh) =>
            /\ \A j \in i..Len(hist.logCalls) :
                   LET c == hist.logCalls[j]
                   IN (c.ch = first.ch /\ c.time = first.time /\ c.gate) =>
                          /\ LogGatePassed(i, j) <= first.burst =>
                                 (c.admitted /\ c.enqueued)
                          /\ LogGatePassed(i, j) = first.burst + 1 => ~c.admitted
            /\ (/\ i = 1
                /\ Len(hist.logCalls) = first.burst + 1
                /\ hist.logCalls[Len(hist.logCalls)].time = first.time
                /\ Drained) =>
                   LET Result == GetLogEntries(LogEntries, first.ch, 10)
                   IN /\ Result = EntriesOfCalls(1, first.burst)
                      /\ \A a, b \in 1..Len(Result) :
                             a < b => Result[a].Timestamp <= Result[b].Timestamp

(***************************************************************************)
(* Two threads logging at once, step by step, and the Log Processor.       *)
(***************************************************************************)
MaxProducerLogs == 2

Producers == {"p1", "p2"}

InitProducers == InitSubsystem(DefaultConfig, FALSE, TRUE, Producers \cup {GameThread})

NextProducers ==
    \/ \E t \in Producers : ProducerAdmit(t, Gameplay, Message, MaxProducerLogs)
    \/ \E t \in Producers : ProducerStore(t)
    \/ \E t \in Producers : ProducerEnqRead(t)
    \/ \E t \in Producers : ProducerEnqHead(t)
    \/ \E t \in Producers : ProducerEnqLink(t)
    \/ \E t \in Producers : ProducerEnqueued(t)
    \/ ProcessorLoop
    \/ ProcessBatchStep
    \/ ProcessorCheckEmpty
    \/ ProcessorWait

SpecProducers == InitProducers /\ [][NextProducers]_vars

\* number of times e occurs in s
Occurrences(s, e) == Cardinality({i \in 1..Len(s) : s[i] = e})

\* no call of the log API is in progress
ProducersIdle == \A t \in DOMAIN Threads : Threads[t].pc = "idle"

\* C4: every entry that log successfully enqueues is dequeued and processed by
\* the Log Processor exactly once: never twice, and, once the producers have
\* returned and the processor has drained, not less than once.
C4_ProcessedExactlyOnce ==
    /\ \A i \in 1..Len(hist.processed) :
           Occurrences(hist.processed, hist.processed[i]) = 1
    /\ (ProducersIdle /\ Drained) =>
           \A i \in 1..Len(hist.enqueued) :
               Occurrences(hist.processed, hist.enqueued[i]) = 1

(***************************************************************************)
(* Shutdown with a backlog: the game thread logs, then runs Deinitialize.  *)
(* File logging is off and the File Writer takes no step, so Deinitialize  *)
(* is followed up to its wait for the Log Processor.  hist.enqueued holds  *)
(* the messages enqueued, hist.enqueuedAtStop how many there were when the *)
(* stop was requested.                                                     *)
(***************************************************************************)
MaxShutdownLogs == 65

ShutdownConfig ==
    [bEnabled |-> TRUE, MinVerbosity |-> Message,
     RateLimit |-> [TokensPerSecond |-> 1000, BurstCapacity |-> 1000],
     MaxLogEntries |-> 1000, bInheritFromParent |-> TRUE]

InitShutdown == InitSubsystem(ShutdownConfig, FALSE, TRUE, {GameThread})

NextShutdown ==
    \/ LogCall(GameThread, Gameplay, Message, MaxShutdownLogs)
    \/ DeinitStopProcessor
    \/ DeinitStopWriter
    \/ DeinitJoinProcessor
    \/ ProcessorLoop
    \/ ProcessBatchStep
    \/ ProcessorCheckEmpty
    \/ ProcessorWait

SpecShutdown == InitShutdown /\ [][NextShutdown]_vars

\* C5: when the Log Processor thread has terminated, every entry enqueued
\* before the stop was requested, so every entry that was in the ingestion
\* queue at that moment, has been processed, whatever their number.
C5_ShutdownDrainsBacklog ==
    LogProcessor.pc = "done" =>
        \A i \in 1..hist.enqueuedAtStop :
            Occurrences(hist.processed, hist.enqueued[i]) >= 1

(***************************************************************************)
(* Shutdown with file logging on: game thread, Log Processor, File Writer. *)
(***************************************************************************)
MaxWriterLogs == 2

InitWriter == InitSubsystem(DefaultConfig, TRUE, TRUE, {GameThread})

NextWriter ==
    \/ LogCall(GameThread, Gameplay, Message, MaxWriterLogs)
    \/ DeinitStopProcessor
    \/ DeinitStopWriter
    \/ DeinitJoinProcessor
    \/ DeinitJoinWriter
    \/ DeinitCleanup
    \/ ProcessorLoop
    \/ ProcessBatchStep
    \/ ProcessorCheckEmpty
    \/ ProcessorWait
    \/ WriterLoop
    \/ WriterWork
    \/ WriterCheckEmpty
    \/ WriterWait
    \/ WriterFinalDrain
    \/ WriterClose

SpecWriter == InitWriter /\ [][NextWriter]_vars

\* the line of a forwarded entry is among the lines written to its file
Written(FileEntry) ==
    /\ FileEntry.FilePath \in DOMAIN Disk
    /\ FileEntry.LogLine \in Range(Disk[FileEntry.FilePath].Lines)

\* C6: when the File Writer thread has terminated after a stop request (no
\* file having failed to open), the file-write queue is empty, no file handle
\* is open, and, the Log Processor having terminated too, every line it
\* forwarded, its final drain included, has been written.
C6_WriterLeavesNothingBehind ==
    (/\ FileWriter.pc = "done"
     /\ FileWriter.bStopRequested
     /\ FileWriter.Diagnostics.FailedWrites = 0) =>
        /\ IsEmpty(FileWriteQueue)
        /\ FileWriter.OpenFiles = {}
        /\ LogProcessor.pc = "done" =>
               \A i \in 1..Len(hist.forwarded) : Written(hist.forwarded[i])

(***************************************************************************)
(* The capacity of the ingestion queue.  The subsystem has been logging    *)
(* to Gameplay while the Log Processor did not run: the queue holds        *)
(* MAX_QUEUE_SIZE - 1 or MAX_QUEUE_SIZE entries, and Gameplay has been     *)
(* registered again since (a fresh bucket).  In SpecCapacity two threads   *)
(* call ULM_LOG, each a step at a time: the gate of ULMLogMessage, the     *)
(* tests of StoreLogEntryInternal, Enqueue, the counting.  In              *)
(* SpecCapacityCall the game thread calls it and each call runs to its     *)
(* return.  The Log Processor takes at most MaxCapacityDequeues entries,   *)
(* fewer than BATCH_SIZE: its first batch does not end, so the test for an *)
(* empty queue and the wait that follow a batch are not among the steps.   *)
(***************************************************************************)
MaxCapacityCalls == 4

MaxCapacityLogs == 1

MaxCapacityDequeues == 3

\* a queue after n Enqueue calls and no Dequeue
PreloadedQueue(n) ==
    [Nodes |-> [i \in 1..(n + 1) |->
                  [Item |-> IF i = 1 THEN NoItem
                            ELSE QueueEntryOf("earlier", i - 1, Gameplay, Message, 1),
                   NextNode |-> IF i = n + 1 THEN 0 ELSE i + 1]],
     Head |-> n + 1, Tail |-> 1, Fresh |-> n + 2]

\* the number of nodes linked behind node n, following at most k links:
\* [cnt, end], end being the node the walk stopped at (0: the end of the list)
RECURSIVE QCountFrom(_, _, _)
QCountFrom(q, n, k) ==
    IF k = 1
    THEN [cnt |-> IF q.Nodes[n].NextNode = 0 THEN 0 ELSE 1,
          end |-> q.Nodes[n].NextNode]
    ELSE LET a == QCountFrom(q, n, k \div 2)
         IN IF a.end = 0 THEN a
            ELSE LET b == QCountFrom(q, a.end, k - k \div 2)
                 IN [cnt |-> a.cnt + b.cnt, end |-> b.end]

\* the entries pending in q
QSize(q) == QCountFrom(q, q.Tail, Cardinality(DOMAIN q.Nodes)).cnt

CapacityConfigs ==
    {ShutdownConfig, [ShutdownConfig EXCEPT !.RateLimit.BurstCapacity = 2]}

InitCapacity ==
    \E Config \in CapacityConfigs, n \in {MAX_QUEUE_SIZE - 1, MAX_QUEUE_SIZE} :
        /\ ChannelConfigs = RegisterChannel(NewRegistry, Gameplay, Config).cfg
        /\ ChannelStates = RegisterChannel(NewRegistry, Gameplay, Config).st
        /\ RegistryLock = "free"
        /\ blocked = {}
        /\ now = 1
        /\ calls = << >>
        /\ lastOp = NoOp
        /\ opCount = 0
        /\ LogMessageQueue = PreloadedQueue(n)
        /\ QueueDiagnostics = [NewQueueDiagnostics EXCEPT !.EnqueueCount = n]
        /\ LogEntries = (Gameplay :> << >>)
        /\ MemoryTracker = NewMemoryTracker(DefaultMemoryBudget)
        /\ bFileLoggingEnabled = FALSE
        /\ FileWriteQueue = NewQueue
        /\ LogProcessor = NewLogProcessor
        /\ FileWriter = NewFileWriter(TRUE, 1)
        /\ Disk = << >>
        /\ LogRotator = NewLogRotator
        /\ Threads = [t \in Producers \cup {GameThread} |-> IdleThread]
        /\ Lifecycle = "running"
        /\ hist = NoHistory

\* LogMessageQueue.Enqueue(QueueEntry) with no step of another thread between
\* its three stores
ProducerEnqueue(t) ==
    /\ Threads[t].pc = "enqRead"
    /\ LogMessageQueue' =
           QLink(QSetHead(LogMessageQueue, Threads[t].NewNode),
                 LogMessageQueue.Head, Threads[t].NewNode)
    /\ Threads' = [Threads EXCEPT ![t].pc = "enqueued",
                                  ![t].OldHead = LogMessageQueue.Head]
    /\ UNCHANGED <<producerRest, ChannelStates, QueueDiagnostics, LogProcessor, hist>>

NextCapacity ==
    \/ \E t \in Producers : ProducerAdmit(t, Gameplay, Message, MaxCapacityLogs)
    \/ \E t \in Producers : ProducerStore(t)
    \/ \E t \in Producers : ProducerEnqueue(t)
    \/ \E t \in Producers : ProducerEnqueued(t)
    \/ ProcessorLoop
    \/ (QueueDiagnostics.DequeueCount < MaxCapacityDequeues /\ ProcessBatchStep)

SpecCapacity == InitCapacity /\ [][NextCapacity]_vars

\* C11: the number of entries pending in the ingestion queue never exceeds
\* MAX_QUEUE_SIZE, in every reachable state, whatever the interleaving of the
\* producers and the consumer.
C11_PendingWithinCapacity == QSize(LogMessageQueue) <= MAX_QUEUE_SIZE

NextCapacityCall ==
    \/ LogCall(GameThread, Gameplay, Message, MaxCapacityCalls)
    \/ ProcessorLoop
    \/ (QueueDiagnostics.DequeueCount < MaxCapacityDequeues /\ ProcessBatchStep)

SpecCapacityCall == InitCapacity /\ [][NextCapacityCall]_vars

\* the step is a call of ULM_LOG made while the estimated pending count
\* (EnqueueCount - DequeueCount) is at or above MAX_QUEUE_SIZE
LogCalledAtCapacity ==
    /\ hist'.logCalls # hist.logCalls
    /\ QueueDiagnostics.EnqueueCount - QueueDiagnostics.DequeueCount >= MAX_QUEUE_SIZE

\* the entry is dropped and counted: nothing is enqueued, DroppedCount grows
\* by one, EnqueueCount and the queue are as before, the thread is back from
\* the call
DroppedAndCounted ==
    /\ ~hist'.logCalls[Len(hist'.logCalls)].enqueued
    /\ QueueDiagnostics'.DroppedCount = QueueDiagnostics.DroppedCount + 1
    /\ QueueDiagnostics'.EnqueueCount = QueueDiagnostics.EnqueueCount
    /\ LogMessageQueue' = LogMessageQueue
    /\ Threads'[GameThread].pc = "idle"

\* the channel's gate and bucket let the call through in ULMLogMessage and
\* again in StoreLogEntryInternal
PassesBothGates ==
    LET c == hist'.logCalls[Len(hist'.logCalls)]
        r1 == CanChannelLog(Registry, c.ch, c.v, now)
    IN r1.ok /\ CanChannelLog(r1.reg, c.ch, c.v, now).ok

MaxStores == 5

MaxStorageOps == 2

MessageLengths == {8, 48}

StorageChannels == {Gameplay, Network}

StorageBudgets == {400, DefaultMemoryBudget}

StorageConfig(MaxLogEntries) == [ShutdownConfig EXCEPT !.MaxLogEntries = MaxLogEntries]

StorageConfigs == {StorageConfig(1), StorageConfig(3)}

\* UULMSubsystem::SetMemoryBudget(Budget), then RegisterChannel(Gameplay, Config)
InitStorageWith(Budget, Config) ==
    /\ ChannelConfigs = RegisterChannel(NewRegistry, Gameplay, Config).cfg
    /\ ChannelStates = RegisterChannel(NewRegistry, Gameplay, Config).st
    /\ RegistryLock = "free"
    /\ blocked = {}
    /\ now = 1
    /\ calls = << >>
    /\ lastOp = NoOp
    /\ opCount = 0
    /\ LogMessageQueue = NewQueue
    /\ QueueDiagnostics = NewQueueDiagnostics
    /\ LogEntries = (Gameplay :> << >>)
    /\ MemoryTracker = SetMemoryBudget(NewMemoryTracker(DefaultMemoryBudget), Budget)
    /\ bFileLoggingEnabled = FALSE
    /\ FileWriteQueue = NewQueue
    /\ LogProcessor = NewLogProcessor
    /\ FileWriter = NewFileWriter(TRUE, 1)
    /\ Disk = << >>
    /\ LogRotator = NewLogRotator
    /\ Threads = [t \in {GameThread} |-> IdleThread]
    /\ Lifecycle = "running"
    /\ hist = NoHistory

InitStorage == \E Budget \in StorageBudgets : InitStorageWith(Budget, StorageConfig(2))

\* the pass of TrimMemoryBudget that took S to T, as hist.eviction records it
PassOf(S, T) ==
    LET Usage == S.MemoryTracker.TotalMemoryUsed
        Budget == S.MemoryTracker.MemoryBudget
        Order == ChannelsByUsage(S.MemoryTracker, DOMAIN S.LogEntries)
        Cut(i) == Len(S.LogEntries[Order[i].Key]) - Len(T.LogEntries[Order[i].Key])
        Trimmed == {i \in 1..Len(Order) : Cut(i) > 0}
        last == CHOOSE i \in Trimmed : \A j \in Trimmed : j <= i
    IN [passes |-> hist.eviction.passes + 1, before |-> Usage, budget |-> Budget,
        target |-> (Budget * TrimTargetPercent(Usage, Budget)) \div 100,
        after |-> T.MemoryTracker.TotalMemoryUsed,
        channels |-> Cardinality(Trimmed),
        putBack |-> IF Trimmed = {} THEN 0
                    ELSE CalculateLogEntrySize(
                             S.LogEntries[Order[last].Key][Cut(last)])]

\* the Log Processor calls ProcessLogEntry with an entry of Length characters
\* for ChannelName.  A store that finds the counter negative is not followed:
\* GetTotalMemoryUsage() then returns a SIZE_T near 2^64.
ProcessEntry(ChannelName, Length) ==
    /\ Lifecycle = "running"
    /\ RegistryLock = "free"
    /\ Len(hist.stores) < MaxStores
    /\ MemoryTracker.TotalMemoryUsed >= 0
    /\ \E QueueEntry \in {[QueueEntryOf(GameThread, Len(hist.stores) + 1, ChannelName,
                                        Message, now)
                             EXCEPT !.Message = Append(@, Length)]} :
       \E S \in {ProcessLogEntry(Sub, QueueEntry, now)},
          T \in {IF WouldExceedBudget(MemoryTracker, CalculateLogEntrySize(QueueEntry))
                 THEN TrimMemoryBudget(Sub) ELSE Sub} :
          /\ ChannelConfigs' = S.reg.cfg
          /\ ChannelStates' = S.reg.st
          /\ LogEntries' = S.LogEntries
          /\ MemoryTracker' = S.MemoryTracker
          /\ FileWriteQueue' = S.FileWriteQueue
          /\ FileWriter' = IF S.Wake THEN [FileWriter EXCEPT !.WakeUpEvent = TRUE]
                           ELSE FileWriter
          /\ hist' = [hist EXCEPT
                        !.stores =
                            Append(@, [Channel |-> ChannelName,
                                       Message |-> QueueEntry.Message,
                                       size |-> CalculateLogEntrySize(QueueEntry),
                                       usage |-> T.MemoryTracker.TotalMemoryUsed,
                                       budget |-> T.MemoryTracker.MemoryBudget,
                                       kept |-> /\ ChannelName \in DOMAIN S.LogEntries
                                                /\ \E i \in DOMAIN S.LogEntries[ChannelName] :
                                                      S.LogEntries[ChannelName][i].Message
                                                          = QueueEntry.Message]),
                        !.eviction =
                            IF WouldExceedBudget(MemoryTracker,
                                                 CalculateLogEntrySize(QueueEntry))
                            THEN PassOf(Sub, T) ELSE @]
    /\ UNCHANGED <<RegistryLock, blocked, now, obsVars, LogMessageQueue,
                   QueueDiagnostics, bFileLoggingEnabled, LogProcessor, Disk,
                   LogRotator, Threads, Lifecycle>>

\* the frame of a call that reconfigures a channel
storageRest ==
    <<RegistryLock, blocked, now, calls, lastOp, LogMessageQueue, QueueDiagnostics,
      MemoryTracker, bFileLoggingEnabled, FileWriteQueue, LogProcessor, FileWriter,
      Disk, LogRotator, Threads, Lifecycle, hist>>

\* the game thread calls UULMSubsystem::RegisterChannel(ChannelName, Config)
CallSubsystemRegisterChannel(ChannelName, Config) ==
    /\ Lifecycle = "running"
    /\ RegistryLock = "free"
    /\ opCount < MaxStorageOps
    /\ \E S \in {SubsystemRegisterChannel(Sub, ChannelName, Config)} :
          /\ ChannelConfigs' = S.reg.cfg
          /\ ChannelStates' = S.reg.st
          /\ LogEntries' = S.LogEntries
    /\ opCount' = opCount + 1
    /\ UNCHANGED storageRest

\* the game thread calls UULMSubsystem::UpdateChannelConfig(ChannelName, Config)
CallSubsystemUpdateChannelConfig(ChannelName, Config) ==
    /\ Lifecycle = "running"
    /\ RegistryLock = "free"
    /\ opCount < MaxStorageOps
    /\ \E reg \in {UpdateChannelConfig(Registry, ChannelName, Config)} :
          /\ ChannelConfigs' = reg.cfg
          /\ ChannelStates' = reg.st
    /\ opCount' = opCount + 1
    /\ UNCHANGED <<storageRest, LogEntries>>

NextStorage ==
    \/ \E ch \in StorageChannels, n \in MessageLengths : ProcessEntry(ch, n)
    \/ \E c \in StorageConfigs : CallSubsystemRegisterChannel(Gameplay, c)
    \/ \E c \in StorageConfigs : CallSubsystemUpdateChannelConfig(Gameplay, c)

SpecStorage == InitStorage /\ [][NextStorage]_vars

\* every entry handed to the store was kept exactly if the usage the store
\* decided on plus the entry's size was within the budget
StoredOnlyIfWithinBudget ==
    \A i \in DOMAIN hist.stores :
        hist.stores[i].kept
            <=> hist.stores[i].usage + hist.stores[i].size <= hist.stores[i].budget

\* C13: with a fixed memory budget, the tracked memory usage never exceeds
\* the budget after any sequence of store operations, and an entry is kept
\* only if the usage (after the one trim pass, if it was needed) plus the
\* entry's size is within the budget; otherwise it is dropped.
C13_UsageWithinBudget ==
    /\ MemoryTracker.TotalMemoryUsed <= MemoryTracker.MemoryBudget
    /\ StoredOnlyIfWithinBudget

\* the entry handed over last found no room after the trim pass and was
\* dropped
C13_Witness ==
    /\ hist.stores # << >>
    /\ ~hist.stores[Len(hist.stores)].kept
    /\ hist.eviction.passes >= 1
    /\ MemoryTracker.TotalMemoryUsed > 0
    /\ MemoryTracker.TotalMemoryUsed + hist.stores[Len(hist.stores)].size
           > MemoryTracker.MemoryBudget

\* this step hands an entry to the store whose size the budget check finds
\* too large for the room left, so that TrimMemoryBudget is called
AdmissionExceedsBudget ==
    /\ Len(hist'.stores) = Len(hist.stores) + 1
    /\ hist'.eviction.passes = hist.eviction.passes + 1

\* some channel retains an entry
RetainsEntry == \E ch \in DOMAIN LogEntries : LogEntries[ch] # << >>

\* C28: whenever admitting an entry would exceed the memory budget and the
\* store retains at least one entry, the eviction that is triggered removes
\* at least one retained entry before the new entry is kept or dropped.
C28_EvictionRemovesAnEntry ==
    [][(AdmissionExceedsBudget /\ RetainsEntry) =>
          /\ hist'.eviction.channels >= 1
          /\ hist'.eviction.after < hist'.eviction.before]_vars

\* the same for the calls that find the usage above the budget less the
\* buffer of TrimMemoryBudget
C28_AboveBuffer ==
    [][(/\ AdmissionExceedsBudget
        /\ RetainsEntry
        /\ MemoryTracker.TotalMemoryUsed
               > MemoryTracker.MemoryBudget - (MemoryTracker.MemoryBudget * 2) \div 100) =>
          /\ hist'.eviction.channels >= 1
          /\ hist'.eviction.after < hist'.eviction.before]_vars

(***************************************************************************)
(* The tracker's counters under stores, trims and ResetMemoryDiagnostics.  *)
(***************************************************************************)
\* the game thread calls UULMSubsystem::ResetMemoryDiagnostics()
CallResetMemoryDiagnostics ==
    /\ Lifecycle = "running"
    /\ opCount < MaxStorageOps
    /\ MemoryTracker' = Reset(MemoryTracker)
    /\ opCount' = opCount + 1
    /\ UNCHANGED <<regVars, now, calls, lastOp, LogMessageQueue, QueueDiagnostics,
                   LogEntries, bFileLoggingEnabled, FileWriteQueue, LogProcessor,
                   FileWriter, Disk, LogRotator, Threads, Lifecycle, hist>>

NextTracker ==
    \/ \E ch \in StorageChannels, n \in MessageLengths : ProcessEntry(ch, n)
    \/ \E c \in StorageConfigs : CallSubsystemUpdateChannelConfig(Gameplay, c)
    \/ CallResetMemoryDiagnostics

SpecTracker == InitStorage /\ [][NextTracker]_vars

RECURSIVE SumOver(_, _)
SumOver(f, D) ==
    IF D = {} THEN 0
    ELSE LET k == CHOOSE x \in D : TRUE IN f[k] + SumOver(f, D \ {k})

\* C14: between tracker operations the global tracked-memory counter equals
\* the sum of the per-channel tracked usages, after any sequence of adds,
\* trims and resets of the diagnostics.
C14_TotalIsSumOfChannels ==
    MemoryTracker.TotalMemoryUsed
        = SumOver(MemoryTracker.ChannelMemoryUsage,
                  DOMAIN MemoryTracker.ChannelMemoryUsage)

\* the texts of the entries handed over for ChannelName, oldest first
TextsStored(ChannelName) ==
    LET s == SelectSeq(hist.stores, LAMBDA r : r.Channel = ChannelName)
    IN [i \in 1..Len(s) |-> s[i].Message]

\* the texts of the entries LogEntries retains for ChannelName
TextsRetained(ChannelName) ==
    [i \in 1..Len(LogEntries[ChannelName]) |-> LogEntries[ChannelName][i].Message]

\* no call has reconfigured a channel and no store has found the budget short
AmpleHeadroom == opCount = 0 /\ hist.eviction.passes = 0

\* C15: storing max_entries + K entries (K >= 1) into one channel with ample
\* memory headroom leaves exactly max_entries entries: the K oldest are gone
\* and the others keep their insertion order.
C15_OldestTrimmedInOrder ==
    \A ch \in DOMAIN LogEntries :
        LET all == TextsStored(ch)
            max == GetChannelConfig(Registry, ch).MaxLogEntries
        IN (AmpleHeadroom /\ Len(all) > max)
              => TextsRetained(ch) = SubSeq(all, Len(all) - max + 1, Len(all))

\* four entries were stored into Gameplay, whose MaxLogEntries is 2
C15_Witness ==
    /\ AmpleHeadroom
    /\ GetChannelConfig(Registry, Gameplay).MaxLogEntries = 2
    /\ Len(TextsStored(Gameplay)) >= 4
    /\ Len(LogEntries[Gameplay]) = 2

\* C16: in every reachable state a channel retains at most as many entries
\* as its effective max entries, also right after UpdateChannelConfig or a
\* second RegisterChannel has lowered the max below the number retained.
C16_CountWithinEffectiveMax ==
    \A ch \in (DOMAIN LogEntries) \cap (DOMAIN ChannelStates) :
        Len(LogEntries[ch]) <= ChannelStates[ch].EffectiveMaxEntries

(***************************************************************************)
(* Eviction.  The game thread lowers the budget with SetMemoryBudget while *)
(* entries are retained, which takes the usage above the budget; the next  *)
(* store runs TrimMemoryBudget.  The entries are of 130, 650 and 1170      *)
(* bytes in either channel.                                                *)
(***************************************************************************)
EvictionLengths == {13, 273, 533}

EvictionBudgets == {1000, 2000}

InitEviction == InitStorageWith(DefaultMemoryBudget, DefaultConfig)

\* the game thread calls UULMSubsystem::SetMemoryBudget(BudgetBytes)
CallSetMemoryBudget(BudgetBytes) ==
    /\ Lifecycle = "running"
    /\ MemoryTracker.MemoryBudget # BudgetBytes
    /\ MemoryTracker' = SetMemoryBudget(MemoryTracker, BudgetBytes)
    /\ UNCHANGED <<regVars, now, obsVars, LogMessageQueue, QueueDiagnostics,
                   LogEntries, bFileLoggingEnabled, FileWriteQueue, LogProcessor,
                   FileWriter, Disk, LogRotator, Threads, Lifecycle, hist>>

NextEviction ==
    \/ \E ch \in StorageChannels, n \in EvictionLengths :
           ProcessEntry(ch, n + NameLen(Gameplay) - NameLen(ch))
    \/ \E b \in EvictionBudgets : CallSetMemoryBudget(b)

SpecEviction == InitEviction /\ [][NextEviction]_vars

\* C17: if the tracked usage is at 130% of the budget B when eviction is
\* triggered, the usage is at most 75% of B when the pass has finished,
\* however the usage is spread over channels and entry sizes.
C17_EvictionReaches75Percent ==
    (/\ hist.eviction.passes >= 1
     /\ hist.eviction.before * 10 = hist.eviction.budget * 13)
        => hist.eviction.after * 100 <= hist.eviction.budget * 75

\* C18: an eviction pass removes no more entries than it needs to reach its
\* target usage: with the entry it removed last put back, the tracked usage
\* would be above the target.
C18_NoEntryRemovedBeyondTarget ==
    hist.eviction.channels >= 1
        => hist.eviction.after + hist.eviction.putBack > hist.eviction.target

(***************************************************************************)
(* Rotation.  The game thread calls ForceLogRotation while the Log         *)
(* Processor looks paths up and the File Writer writes.  RotateFile takes  *)
(* FileTrackingLock once in each of GenerateRotatedFilePath, SetFileActive,*)
(* RegisterFile and SetFileActive; the other threads only read the tracker,*)
(* so the reads of RotateFile are joined to its first write.  While the    *)
(* game thread is in RotateFile, Threads[GameThread].Entry holds the       *)
(* channel and NewFilePath.  Nothing in the plugin calls UpdateFileSize,   *)
(* ShouldRotateFile or RegisterNewFile.                                    *)
(***************************************************************************)
MaxRotations == 2

MaxFileBytes == 16

\* FULMLogFileTracker::UpdateFileSize
UpdateFileSize(rot, ChannelName, NewSize) ==
    IF GetActiveFile(rot, ChannelName) = 0 THEN rot
    ELSE [rot EXCEPT
            !.ChannelFiles[ChannelName][GetActiveFile(rot, ChannelName)].FileSize =
                NewSize]

IsValidRotationConfig(rot) ==
    rot.Config.MaxFileSizeBytes > 0 /\ rot.Config.RetentionDays > 0

\* FULMLogRotator::ShouldRotateFile; FileSize is IFileManager::FileSize(FilePath)
ShouldRotateFile(rot, ChannelName, FileSize) ==
    /\ IsValidRotationConfig(rot)
    /\ \/ FileSize >= rot.Config.MaxFileSizeBytes
       \/ \E i \in DOMAIN FilesOf(rot, ChannelName) :
             /\ FilesOf(rot, ChannelName)[i].bIsActive
             /\ FilesOf(rot, ChannelName)[i].FileSize >= rot.Config.MaxFileSizeBytes

\* FULMLogFileTracker::GenerateRotatedFilePath: NextIndex after the loop
RECURSIVE NextIndexFrom(_, _, _, _)
NextIndexFrom(Files, i, Day, NextIndex) ==
    IF i > Len(Files) THEN NextIndex
    ELSE NextIndexFrom(Files, i + 1, Day,
                       IF DateString(Files[i].CreationDate) = Day
                          /\ Files[i].FileIndex >= NextIndex
                       THEN Files[i].FileIndex + 1 ELSE NextIndex)

GenerateRotatedFilePath(rot, ChannelName, CurrentTime) ==
    LogFilePath(ChannelName, DateString(CurrentTime),
                NextIndexFrom(FilesOf(rot, ChannelName), 1, DateString(CurrentTime), 1))

\* the path TEXT("")
NoPath == << >>

\* FULMLogFileTracker::SetFileActive
SetFileActive(rot, ChannelName, FilePath) ==
    IF ChannelName \notin DOMAIN rot.ChannelFiles THEN rot
    ELSE LET Files == rot.ChannelFiles[ChannelName]
             Match == {i \in DOMAIN Files : Files[i].FilePath = FilePath}
         IN [rot EXCEPT !.ChannelFiles[ChannelName] =
                [i \in DOMAIN Files |->
                    [Files[i] EXCEPT !.bIsActive =
                        Match # {} /\ i = CHOOSE m \in Match : \A k \in Match : m <= k]]]

\* FULMLogFileTracker::RegisterFile
RegisterFile(rot, ChannelName, FilePath, CreationDate, FileIndex) ==
    LET Files == FilesOf(rot, ChannelName)
        Match == {i \in DOMAIN Files : Files[i].FilePath = FilePath}
        First == CHOOSE m \in Match : \A k \in Match : m <= k
    IN [rot EXCEPT !.ChannelFiles =
           Put(@, ChannelName,
               IF Match # {}
               THEN [Files EXCEPT ![First].CreationDate = CreationDate,
                                  ![First].FileIndex = FileIndex]
               ELSE Append(Files, NewLogFileInfo(FilePath, ChannelName, CreationDate,
                                                 FileIndex)))]

\* FULMLogFileTracker::ParseLogFileName: OutIndex
ParseLogFileName(FilePath) == FilePath[4]

InitRotation ==
    /\ ChannelConfigs = RegisterChannel(NewRegistry, Gameplay, DefaultConfig).cfg
    /\ ChannelStates = RegisterChannel(NewRegistry, Gameplay, DefaultConfig).st
    /\ RegistryLock = "free"
    /\ blocked = {}
    /\ now = 1
    /\ calls = << >>
    /\ lastOp = NoOp
    /\ opCount = 0
    /\ LogMessageQueue = NewQueue
    /\ QueueDiagnostics = NewQueueDiagnostics
    /\ LogEntries = (Gameplay :> << >>)
    /\ MemoryTracker = NewMemoryTracker(DefaultMemoryBudget)
    /\ bFileLoggingEnabled = TRUE
    /\ FileWriteQueue = NewQueue
    /\ LogProcessor = NewLogProcessor
    /\ FileWriter = NewFileWriter(TRUE, 1)
    /\ Disk = << >>
    /\ LogRotator = NewLogRotatorWith([DefaultRotationConfig EXCEPT
                                         !.MaxFileSizeBytes = MaxFileBytes])
    /\ Threads = [t \in {GameThread} |-> IdleThread]
    /\ Lifecycle = "running"
    /\ hist = NoHistory

rotationRest ==
    <<regVars, now, obsVars, LogMessageQueue, QueueDiagnostics, LogEntries,
      MemoryTracker, bFileLoggingEnabled, FileWriteQueue, LogProcessor, FileWriter,
      Disk, Lifecycle, hist>>

\* ForceLogRotation(ChannelName) as far as the first SetFileActive of RotateFile
RotateDeactivate(ChannelName) ==
    /\ Lifecycle = "running"
    /\ Threads[GameThread].pc = "idle"
    /\ LogRotator.TotalRotations < MaxRotations
    /\ GetActiveFilePath(LogRotator, ChannelName, now) \in DOMAIN Disk
    /\ IsValidRotationConfig(LogRotator)
    /\ Threads' = [Threads EXCEPT
                     ![GameThread].pc = "rotateRegister",
                     ![GameThread].Entry =
                         [Channel |-> ChannelName,
                          NewFilePath |-> GenerateRotatedFilePath(LogRotator,
                                                                  ChannelName, now)]]
    /\ LogRotator' = SetFileActive(LogRotator, ChannelName, NoPath)
    /\ UNCHANGED rotationRest

\* RotateFile: ParseLogFileName, FileTracker.RegisterFile
RotateRegister ==
    /\ Threads[GameThread].pc = "rotateRegister"
    /\ LogRotator' = RegisterFile(LogRotator, Threads[GameThread].Entry.Channel,
                                  Threads[GameThread].Entry.NewFilePath, now,
                                  ParseLogFileName(Threads[GameThread].Entry.NewFilePath))
    /\ Threads' = [Threads EXCEPT ![GameThread].pc = "rotateActivate"]
    /\ UNCHANGED rotationRest

\* RotateFile: FileTracker.SetFileActive(NewFilePath), IncrementRotationCount
RotateActivate ==
    /\ Threads[GameThread].pc = "rotateActivate"
    /\ LogRotator' = [SetFileActive(LogRotator, Threads[GameThread].Entry.Channel,
                                    Threads[GameThread].Entry.NewFilePath)
                         EXCEPT !.TotalRotations = @ + 1]
    /\ Threads' = [Threads EXCEPT ![GameThread].pc = "idle",
                                  ![GameThread].Entry = NoItem]
    /\ UNCHANGED rotationRest

NextRotation ==
    \/ ProcessEntry(Gameplay, MsgLen)
    \/ WriterLoop
    \/ WriterWork
    \/ WriterCheckEmpty
    \/ WriterWait
    \/ RotateDeactivate(Gameplay)
    \/ RotateRegister
    \/ RotateActivate

SpecRotation == InitRotation /\ [][NextRotation]_vars

\* the bytes WriteToFile has serialized to the first n lines of a file, each
\* line counted with the characters of its message text alone
RECURSIVE BytesOfLines(_, _)
BytesOfLines(Lines, n) ==
    IF n = 0 THEN 0
    ELSE MessageLen(Lines[n].message) + BytesOfLines(Lines, n - 1)

BytesWritten(Files, FilePath) ==
    IF FilePath \in DOMAIN Files
    THEN BytesOfLines(Files[FilePath].Lines, Len(Files[FilePath].Lines)) ELSE 0

\* this step writes to the file the lookup returns for the channel and takes
\* its size to the maximum or above
FillsActiveFile(ChannelName) ==
    LET Active == GenerateLogFilePath(LogRotator, ChannelName, now)
    IN /\ BytesWritten(Disk', Active) > BytesWritten(Disk, Active)
       /\ BytesWritten(Disk', Active) >= LogRotator.Config.MaxFileSizeBytes

\* the lookup after the step returns the file with the next index of the day
LookupReturnsNextIndex(ChannelName) ==
    LET Active == GenerateLogFilePath(LogRotator, ChannelName, now)
    IN GenerateLogFilePath(LogRotator', ChannelName, now')
           = LogFilePath(ChannelName, Active[3], Active[4] + 1)

\* C19: once the bytes written to a channel's active file (index N of the
\* day) bring its size to max_file_size_bytes or above, the next path lookup
\* for the channel on that day returns the file with index N+1.
C19_LookupAfterFullFile ==
    [][\A ch \in StorageChannels :
           FillsActiveFile(ch) => LookupReturnsNextIndex(ch)]_vars

\* the channels a file was written for or RotateFile has registered a file for
WrittenOrRotated ==
    {p[2] : p \in DOMAIN Disk} \cup DOMAIN LogRotator.ChannelFiles

\* C20: in every reachable state, the states a path lookup can observe while
\* RotateFile runs included, every channel that was written to or rotated
\* has exactly one tracked log file marked active.
C20_OneActiveFilePerChannel ==
    \A ch \in WrittenOrRotated :
        Cardinality({i \in DOMAIN FilesOf(LogRotator, ch) :
                        FilesOf(LogRotator, ch)[i].bIsActive}) = 1

\* this step is the call of RotateFile by ForceLogRotation
RotateFileCalled ==
    Threads[GameThread].pc = "idle" /\ Threads'[GameThread].pc = "rotateRegister"

\* the files of the day of FilePath the channel has used: those written for
\* it and those the tracker holds for it
UsedThatDay(ChannelName, FilePath) ==
    {p \in DOMAIN Disk : p[2] = ChannelName /\ p[3] = FilePath[3]}
    \cup {FilesOf(LogRotator, ChannelName)[i].FilePath :
            i \in {k \in DOMAIN FilesOf(LogRotator, ChannelName) :
                     DateString(FilesOf(LogRotator, ChannelName)[k].CreationDate)
                         = FilePath[3]}}

\* the path RotateFile returns is not the current one and its index is above
\* that of every file the channel has used on the day
ReturnsFreshPath(ChannelName, CurrentFilePath, NewFilePath) ==
    /\ NewFilePath # CurrentFilePath
    /\ NewFilePath[4] >= 1
    /\ \A p \in UsedThatDay(ChannelName, NewFilePath) : NewFilePath[4] > p[4]

\* C26: every rotate(channel, current_path) with a valid rotation config
\* returns a path different from current_path whose index is strictly
\* greater than that of every file the channel has used on the current day,
\* the very first rotation of the channel included.
C26_RotateReturnsNextIndex ==
    [][RotateFileCalled =>
          ReturnsFreshPath(Threads'[GameThread].Entry.Channel,
                           GetActiveFilePath(LogRotator,
                                             Threads'[GameThread].Entry.Channel, now),
                           Threads'[GameThread].Entry.NewFilePath)]_vars

\* the same for the calls on a channel the tracker already holds a file for
C26_LaterRotations ==
    [][(RotateFileCalled
        /\ FilesOf(LogRotator, Threads'[GameThread].Entry.Channel) # << >>) =>
          ReturnsFreshPath(Threads'[GameThread].Entry.Channel,
                           GetActiveFilePath(LogRotator,
                                             Threads'[GameThread].Entry.Channel, now),
                           Threads'[GameThread].Entry.NewFilePath)]_vars

(***************************************************************************)
(* Retention.  The directory is Disk; a file of it carries, besides its    *)
(* lines, the TimeStamp the file system gave it at its last write (the     *)
(* specifications of the writer do not read it and leave it out).  The     *)
(* channels log over several days, the clock moves by half days, and       *)
(* ForceRetentionCleanup runs PerformCleanup on the directory.  The        *)
(* Retention Manager's Config is the one the Log Rotator was given         *)
(* (SetRotationConfig hands the same value to both); its diagnostics are   *)
(* left out.  IFileManager::Delete is taken to succeed.                    *)
(***************************************************************************)
MaxHalfDays == 5

NetCode == <<"Net_Code">>

RetentionChannels == {Gameplay, NetCode}

RetentionPolicies == {0, 1, 2}

\* FString::ParseIntoArray(Parts, TEXT("_"), true) of one token of a name
SplitUnderscore(tok) ==
    CASE tok = "Net_Code" -> <<"Net", "Code">>
      [] OTHER -> <<tok>>

\* FileName.ParseIntoArray(Parts, TEXT("_"), true) of ULM_<name>_<date>_<index>:
\* the pieces of the name are texts, the date is the piece the name is
\* followed by
RECURSIVE NamePieces(_)
NamePieces(ChannelName) ==
    IF Len(ChannelName) = 0 THEN << >>
    ELSE IF Len(ChannelName) = 1
         THEN [i \in DOMAIN SplitUnderscore(ChannelName[1]) |->
                  <<SplitUnderscore(ChannelName[1])[i]>>]
         ELSE LET Front == NamePieces(SubSeq(ChannelName, 1, Len(ChannelName) - 1))
                  Back == SplitUnderscore(ChannelName[Len(ChannelName)])
              IN SubSeq(Front, 1, Len(Front) - 1)
                    \o <<Append(Front[Len(Front)], Back[1])>>
                    \o [i \in 1..(Len(Back) - 1) |-> <<Back[i + 1]>>]

FileNameParts(FilePath) ==
    <<[Text |-> <<FilePath[1]>>]>>
        \o [i \in DOMAIN NamePieces(FilePath[2]) |-> [Text |-> NamePieces(FilePath[2])[i]]]
        \o <<[Date |-> FilePath[3]], [Index |-> FilePath[4]]>>

\* FString::Len() of a piece of a file name: a date is printed with 8 digits,
\* an index with 3 and ".json"
PartLen(Part) ==
    IF "Date" \in DOMAIN Part THEN 8
    ELSE IF "Index" \in DOMAIN Part THEN 8
    ELSE NameLen(Part.Text) + Len(Part.Text) - 1

\* FDateTime(Year, Month, Day) of the digits of a piece; Atoi gives 0 for a
\* text, and FDateTime(0, 0, 0) is no date
DateOfPart(Part) ==
    IF "Date" \in DOMAIN Part THEN Part.Date * TicksPerDay ELSE 0

\* FULMRetentionManager::GetFileCreationDate
GetFileCreationDate(Files, FilePath) ==
    LET Parts == FileNameParts(FilePath)
    IN IF Len(Parts) >= 3 /\ PartLen(Parts[3]) = 8
       THEN DateOfPart(Parts[3])
       ELSE Files[FilePath].TimeStamp

\* FULMRetentionManager::IsFileExpired
IsFileExpired(Files, FilePath, RetentionDays, CurrentTime) ==
    GetFileCreationDate(Files, FilePath) < CurrentTime - RetentionDays * TicksPerDay

\* FULMRetentionManager::IsLogFile
IsLogFile(FilePath) == FilePath[1] = "ULM"

\* FULMRetentionManager::GetExpiredFiles
GetExpiredFiles(Files, RetentionDays, CurrentTime) ==
    {p \in DOMAIN Files :
        IsLogFile(p) /\ IsFileExpired(Files, p, RetentionDays, CurrentTime)}

\* FULMRetentionManager::DeleteExpiredFiles
DeleteExpiredFiles(Files, FilesToDelete) ==
    [p \in (DOMAIN Files) \ FilesToDelete |-> Files[p]]

InitRetention ==
    \E Days \in RetentionPolicies :
        /\ ChannelConfigs = RegisterChannel(NewRegistry, Gameplay, DefaultConfig).cfg
        /\ ChannelStates = RegisterChannel(NewRegistry, Gameplay, DefaultConfig).st
        /\ RegistryLock = "free"
        /\ blocked = {}
        /\ now = 0
        /\ calls = << >>
        /\ lastOp = NoOp
        /\ opCount = 0
        /\ LogMessageQueue = NewQueue
        /\ QueueDiagnostics = NewQueueDiagnostics
        /\ LogEntries = (Gameplay :> << >>)
        /\ MemoryTracker = NewMemoryTracker(DefaultMemoryBudget)
        /\ bFileLoggingEnabled = TRUE
        /\ FileWriteQueue = NewQueue
        /\ LogProcessor = NewLogProcessor
        /\ FileWriter = NewFileWriter(TRUE, 1)
        /\ Disk = << >>
        /\ LogRotator = NewLogRotatorWith([DefaultRotationConfig EXCEPT
                                             !.RetentionDays = Days])
        /\ Threads = [t \in {GameThread} |-> IdleThread]
        /\ Lifecycle = "running"
        /\ hist = NoHistory

retentionRest ==
    <<regVars, calls, opCount, LogMessageQueue, QueueDiagnostics, LogEntries,
      MemoryTracker, bFileLoggingEnabled, FileWriteQueue, LogProcessor, FileWriter,
      LogRotator, Threads, Lifecycle, hist>>

HalfDayPasses ==
    /\ now < MaxHalfDays * (TicksPerDay \div 2)
    /\ now' = now + TicksPerDay \div 2
    /\ lastOp' = [op |-> "HalfDayPasses"]
    /\ UNCHANGED <<retentionRest, Disk>>

\* a line logged to the channel now has reached its file, which is closed
\* again: GenerateLogFilePath names the file, WriteToFile appends the line,
\* the file system stamps the file.  One line per file and half day.
LogFileWritten(ChannelName) ==
    /\ IF GenerateLogFilePath(LogRotator, ChannelName, now) \in DOMAIN Disk
       THEN Disk[GenerateLogFilePath(LogRotator, ChannelName, now)].TimeStamp < now
       ELSE TRUE
    /\ \E W \in {WriteToFile(WriterView,
                             GenerateLogFilePath(LogRotator, ChannelName, now),
                             <<ChannelName>>, {})} :
          Disk' = [p \in DOMAIN W.Disk |->
                     IF p = GenerateLogFilePath(LogRotator, ChannelName, now)
                     THEN [Lines |-> W.Disk[p].Lines, Flushed |-> Len(W.Disk[p].Lines),
                           TimeStamp |-> now]
                     ELSE Disk[p]]
    /\ lastOp' = [op |-> "LogFileWritten"]
    /\ UNCHANGED <<retentionRest, now>>

\* UULMSubsystem::ForceRetentionCleanup: FULMRetentionManager::PerformCleanup
PerformCleanup ==
    /\ Disk' = IF LogRotator.Config.RetentionDays <= 0 THEN Disk
               ELSE DeleteExpiredFiles(Disk,
                        GetExpiredFiles(Disk, LogRotator.Config.RetentionDays, now))
    /\ lastOp' = [op |-> "PerformCleanup",
                  pass |-> LogRotator.Config.RetentionDays > 0,
                  before |-> DOMAIN Disk]
    /\ UNCHANGED <<retentionRest, now>>

NextRetention ==
    \/ HalfDayPasses
    \/ \E ch \in RetentionChannels : LogFileWritten(ch)
    \/ PerformCleanup

SpecRetention == InitRetention /\ [][NextRetention]_vars

\* the date embedded in the name of the file lies more than RetentionDays
\* before now
DatedBeforeWindow(FilePath) ==
    FilePath[3] * TicksPerDay < now - LogRotator.Config.RetentionDays * TicksPerDay

C21_PlainNames ==
    (lastOp.op = "PerformCleanup" /\ lastOp.pass) =>
        \A p \in lastOp.before :
            Len(NamePieces(p[2])) = 1 =>
                (DatedBeforeWindow(p) <=> p \notin DOMAIN Disk)

(***************************************************************************)
(* Admission: one thread registers channels, enables and disables them,    *)
(* and asks the registry whether they may log.  "Disabled after            *)
(* inheritance" and "effective minimum severity" are the fields            *)
(* bEffectiveEnabled and EffectiveMinVerbosity of the channel's state,     *)
(* which CanLog reads; that these follow the resolution rule is the        *)
(* subject of C7 and C8.                                                   *)
(***************************************************************************)
MaxAdmissionCalls == 3

AdmissionNames == {A, AB}

AdmissionConfigs ==
    {DefaultConfig,
     [DefaultConfig EXCEPT !.bEnabled = FALSE],
     [DefaultConfig EXCEPT !.MinVerbosity = Critical]}

NextAdmission ==
    \/ \E n \in AdmissionNames, c \in AdmissionConfigs : CallRegisterChannel(n, c)
    \/ \E b \in BOOLEAN : CallSetChannelEnabled(A, b, TRUE)
    \/ \E n \in AdmissionNames \cup {ABC}, v \in {Message, Critical} :
           (Len(calls) < MaxAdmissionCalls /\ CanChannelLogCall(n, v))

SpecAdmission == InitRegistry /\ [][NextAdmission]_vars

\* the step is a can_log call on a channel that is not registered, is
\* disabled after inheritance, or whose effective minimum severity is above
\* the severity of the call
DeniedCall ==
    /\ Len(calls') = Len(calls) + 1
    /\ LET c == calls'[Len(calls')]
       IN \/ ~Registered(c.ch)
          \/ ~ChannelStates[c.ch].bEffectiveEnabled
          \/ c.v < ChannelStates[c.ch].EffectiveMinVerbosity

\* the call returned false and left everything as it was
ReturnsFalseUnchanged ==
    /\ ~calls'[Len(calls')].ok
    /\ UNCHANGED <<regVars, now, lastOp, opCount, pipeVars>>

\* C22: can_log returns false and changes no state when the channel is not
\* registered, when it is disabled after inheritance, or when the severity is
\* below the channel's effective minimum severity.
C22_DeniedWithoutEffect == [][DeniedCall => ReturnsFalseUnchanged]_vars

\* call c was made on a registered, inheriting channel that its own config
\* enables and its parent's settings disable
DisabledByParent(c) ==
    /\ c.known /\ ~c.before.bEffectiveEnabled
    /\ c.ch \in DOMAIN ChannelConfigs /\ ChannelConfigs[c.ch].bEnabled

C22_Witness ==
    /\ \E i \in 1..Len(calls) : ~calls[i].known /\ ~calls[i].ok
    /\ \E i \in 1..Len(calls) :
           DisabledByParent(calls[i]) /\ ~calls[i].ok
               /\ calls[i].after = calls[i].before
    /\ \E i \in 1..Len(calls) :
           /\ calls[i].known /\ calls[i].before.bEffectiveEnabled
           /\ calls[i].v < calls[i].before.EffectiveMinVerbosity
           /\ ~calls[i].ok /\ calls[i].after = calls[i].before

(***************************************************************************)
(* Reading the store.  Two threads log to Gameplay and Subsystem while the *)
(* clock runs and the Log Processor stores what it dequeues.  A thread's   *)
(* Enqueue is one step here, so that the threads do not meet inside it     *)
(* (what happens when they do is C4).  The time of an entry is the time at *)
(* which its thread built the FULMLogQueueEntry, before the Enqueue.       *)
(***************************************************************************)
MaxGet == 2

MaxEntryLogs == 1

\* TArray::StableSort by Timestamp: insertion behind the entries that are not
\* later
RECURSIVE InsertByTimestamp(_, _)
InsertByTimestamp(Sorted, Entry) ==
    IF Sorted = << >> THEN <<Entry>>
    ELSE IF Sorted[Len(Sorted)].Timestamp <= Entry.Timestamp
         THEN Append(Sorted, Entry)
         ELSE Append(InsertByTimestamp(SubSeq(Sorted, 1, Len(Sorted) - 1), Entry),
                     Sorted[Len(Sorted)])

RECURSIVE StableSortByTimestamp(_)
StableSortByTimestamp(Result) ==
    IF Result = << >> THEN << >>
    ELSE InsertByTimestamp(
             StableSortByTimestamp(SubSeq(Result, 1, Len(Result) - 1)),
             Result[Len(Result)])

\* Result.Append(ChannelPair.Value) for the channels in the order Order
RECURSIVE AppendChannels(_, _)
AppendChannels(Entries, Order) ==
    IF Order = << >> THEN << >>
    ELSE Entries[Head(Order)] \o AppendChannels(Entries, Tail(Order))

\* GetLogEntries(Channel, MaxEntries) for the empty Channel; Order is the
\* order in which the TMap hands out its pairs
GetAllLogEntries(Entries, Order, MaxEntries) ==
    LET Result == StableSortByTimestamp(AppendChannels(Entries, Order))
    IN IF MaxEntries > 0 /\ Len(Result) > MaxEntries
       THEN SubSeq(Result, Len(Result) - MaxEntries + 1, Len(Result))
       ELSE Result

\* the orders a TMap with these keys may iterate in
MapOrders(Keys) ==
    {o \in [1..Cardinality(Keys) -> Keys] : \A k \in Keys : \E i \in DOMAIN o : o[i] = k}

NextEntries ==
    \/ \E t \in Producers, ch \in {Gameplay, Subsystem} :
           ProducerAdmit(t, ch, Message, MaxEntryLogs)
    \/ \E t \in Producers : ProducerStore(t)
    \/ \E t \in Producers : ProducerEnqueue(t)
    \/ \E t \in Producers : ProducerEnqueued(t)
    \/ Tick
    \/ ProcessorLoop
    \/ ProcessBatchStep
    \/ ProcessorCheckEmpty
    \/ ProcessorWait

SpecEntries == InitProducers /\ [][NextEntries]_vars

AscendingTimestamps(Result) ==
    \A i \in 1..(Len(Result) - 1) : Result[i].Timestamp <= Result[i + 1].Timestamp

\* Result holds the Count entries stored last in Stored, in the order stored
MostRecentlyStored(Result, Stored, Count) ==
    /\ Len(Result) = Min(Count, Len(Stored))
    /\ \A i \in 1..Len(Result) : Result[i] = Stored[Len(Stored) - Len(Result) + i]

\* Result holds Count entries of All, none of them earlier than an entry of
\* All it leaves out
MostRecentOfAll(Result, All, Count) ==
    /\ Len(Result) = Min(Count, Len(All))
    /\ \A i \in 1..Len(Result) :
           Occurrences(Result, Result[i]) <= Occurrences(All, Result[i])
    /\ \A i \in 1..Len(All) :
           Occurrences(Result, All[i]) < Occurrences(All, All[i]) =>
               \A j \in 1..Len(Result) : All[i].Timestamp <= Result[j].Timestamp

\* C23: get_entries(channel, max) with max > 0 returns at most max entries,
\* the most recently stored entries of the channel in ascending timestamp
\* order; with no channel it returns the entries of all channels merged in
\* ascending timestamp order, limited to the most recent max.
C23_EntriesInTimestampOrder ==
    \A MaxEntries \in 1..MaxGet :
        /\ \A ch \in DOMAIN LogEntries :
               LET Result == GetLogEntries(LogEntries, ch, MaxEntries)
               IN /\ Len(Result) <= MaxEntries
                  /\ MostRecentlyStored(Result, LogEntries[ch], MaxEntries)
                  /\ AscendingTimestamps(Result)
        /\ \A Order \in MapOrders(DOMAIN LogEntries) :
               LET Result == GetAllLogEntries(LogEntries, Order, MaxEntries)
               IN /\ Len(Result) <= MaxEntries
                  /\ AscendingTimestamps(Result)
                  /\ MostRecentOfAll(Result, AppendChannels(LogEntries, Order),
                                     MaxEntries)

\* the same without the order of the entries of one channel
C23_AllChannelsMerged ==
    \A MaxEntries \in 1..MaxGet :
        /\ \A ch \in DOMAIN LogEntries :
               LET Result == GetLogEntries(LogEntries, ch, MaxEntries)
               IN /\ Len(Result) <= MaxEntries
                  /\ MostRecentlyStored(Result, LogEntries[ch], MaxEntries)
        /\ \A Order \in MapOrders(DOMAIN LogEntries) :
               LET Result == GetAllLogEntries(LogEntries, Order, MaxEntries)
               IN /\ Len(Result) <= MaxEntries
                  /\ AscendingTimestamps(Result)
                  /\ MostRecentOfAll(Result, AppendChannels(LogEntries, Order),
                                     MaxEntries)

(***************************************************************************)
(* Termination of Deinitialize.  The steps are those of SpecWriter; the    *)
(* scheduler is fair to the two workers and to the game thread once it is  *)
(* inside Deinitialize: a thread that can take a step eventually takes     *)
(* one.  That the game thread calls Deinitialize at all is not assumed.    *)
(* The Log Processor's bStopRequested is a plain bool written by the game  *)
(* thread; the loop that reads it calls FEvent::Wait and ProcessBatch      *)
(* between two reads, so every turn of the loop reads the member again.    *)
(***************************************************************************)
ProcessorStep ==
    ProcessorLoop \/ ProcessBatchStep \/ ProcessorCheckEmpty \/ ProcessorWait

WriterStep ==
    \/ WriterLoop
    \/ WriterWork
    \/ WriterCheckEmpty
    \/ WriterWait
    \/ WriterFinalDrain
    \/ WriterClose

DeinitStep ==
    DeinitStopWriter \/ DeinitJoinProcessor \/ DeinitJoinWriter \/ DeinitCleanup

MaxStopLogs == 1

NextStop ==
    \/ LogCall(GameThread, Gameplay, Message, MaxStopLogs)
    \/ DeinitStopProcessor
    \/ DeinitStep
    \/ ProcessorStep
    \/ WriterStep

SpecStop ==
    /\ InitWriter
    /\ [][NextStop]_vars
    /\ WF_vars(ProcessorStep)
    /\ WF_vars(WriterStep)
    /\ WF_vars(DeinitStep)

\* Deinitialize has been called: its first statement, the request to the
\* Log Processor, has run
StopRequested == Lifecycle # "running"

\* both worker threads have returned from Run
WorkersTerminated == LogProcessor.pc = "done" /\ FileWriter.pc = "done"

\* Deinitialize is past both WaitForCompletion calls
StopReturned == Lifecycle \in {"cleanup", "down"}

\* C24: after stop is requested both worker threads eventually terminate
\* under fair scheduling, so stop returns; when it returns neither worker is
\* running.
C24_StopTerminates ==
    /\ StopRequested ~> (WorkersTerminated /\ StopReturned)
    /\ [](StopReturned => WorkersTerminated)

\* stop has returned after a request made while an entry was pending and
\* while the File Writer was at work
C24_Witness ==
    /\ Lifecycle = "down"
    /\ WorkersTerminated
    /\ hist.enqueuedAtStop >= 1
    /\ Len(hist.processed) >= 1
    /\ Disk # << >>

(***************************************************************************)
(* The root channel.  The constructor registers "Default"; the calls are   *)
(* those of the registry on "Default" itself, on a channel below it and on *)
(* a channel beside it.                                                    *)
(***************************************************************************)
DefaultChild == <<"Default", ".", "X">>

RootNames == {DefaultName, DefaultChild, AB}

NextDefault ==
    \/ \E n \in RootNames, c \in RegConfigs : CallRegisterChannel(n, c)
    \/ \E n \in RootNames : CallUnregisterChannel(n)
    \/ \E c \in RegConfigs : CallUpdateChannelConfig(DefaultName, c)
    \/ \E b \in BOOLEAN, r \in BOOLEAN : CallSetChannelEnabled(DefaultName, b, r)

SpecDefault == InitRegistry /\ [][NextDefault]_vars

DefaultRegistered ==
    DefaultName \in DOMAIN ChannelConfigs /\ DefaultName \in DOMAIN ChannelStates

\* the step is a call of UnregisterChannel("Default")
UnregistersDefault ==
    /\ opCount' = opCount + 1
    /\ lastOp'.op = "unregister"
    /\ lastOp'.name = DefaultName

\* C25: the default channel is registered in every reachable state of the
\* registry, and a call of unregister("Default") leaves the registry as it
\* was.
C25_DefaultAlwaysRegistered ==
    /\ []DefaultRegistered
    /\ [][UnregistersDefault => UNCHANGED regVars]_vars

\* unregister("Default") has just returned on a registry in which the default
\* channel has a child and a configuration given by a later register call
C25_Witness ==
    /\ lastOp.op = "unregister"
    /\ lastOp.name = DefaultName
    /\ lastOp.preChildren = {DefaultChild}
    /\ ChannelConfigs[DefaultName] # DefaultConfig

(***************************************************************************)
(* The tracker against the store, under stores (with the trims they        *)
(* trigger), ClearChannel and ClearAllChannels.                            *)
(***************************************************************************)
\* UULMSubsystem::ClearChannel
ClearChannel(S, ChannelName) ==
    IF ChannelName \in DOMAIN S.LogEntries
    THEN [S EXCEPT !.LogEntries[ChannelName] = << >>]
    ELSE S

\* UULMSubsystem::ClearAllChannels
ClearAllChannels(S) ==
    [S EXCEPT !.LogEntries = [ch \in DOMAIN S.LogEntries |-> << >>]]

\* the game thread calls ClearChannel(ChannelName)
CallClearChannel(ChannelName) ==
    /\ Lifecycle = "running"
    /\ opCount < MaxStorageOps
    /\ LogEntries' = ClearChannel(Sub, ChannelName).LogEntries
    /\ lastOp' = [op |-> "ClearChannel", name |-> ChannelName]
    /\ opCount' = opCount + 1
    /\ UNCHANGED <<regVars, now, calls, LogMessageQueue, QueueDiagnostics,
                   MemoryTracker, bFileLoggingEnabled, FileWriteQueue, LogProcessor,
                   FileWriter, Disk, LogRotator, Threads, Lifecycle, hist>>

\* the game thread calls ClearAllChannels()
CallClearAllChannels ==
    /\ Lifecycle = "running"
    /\ opCount < MaxStorageOps
    /\ LogEntries' = ClearAllChannels(Sub).LogEntries
    /\ lastOp' = [op |-> "ClearAllChannels"]
    /\ opCount' = opCount + 1
    /\ UNCHANGED <<regVars, now, calls, LogMessageQueue, QueueDiagnostics,
                   MemoryTracker, bFileLoggingEnabled, FileWriteQueue, LogProcessor,
                   FileWriter, Disk, LogRotator, Threads, Lifecycle, hist>>

NextClear ==
    \/ \E ch \in StorageChannels, n \in MessageLengths : ProcessEntry(ch, n)
    \/ \E ch \in StorageChannels : CallClearChannel(ch)
    \/ CallClearAllChannels

SpecClear == InitStorage /\ [][NextClear]_vars

\* the tracked usage of the channel is the sum of the sizes of its entries
TrackedIsRetained(ChannelName) ==
    GetChannelMemoryUsage(MemoryTracker, ChannelName)
        = IF ChannelName \in DOMAIN LogEntries
          THEN SumEntrySizes(LogEntries[ChannelName], Len(LogEntries[ChannelName]))
          ELSE 0

\* C27: the tracked memory usage of every channel equals the sum of the
\* computed sizes of the entries retained for it, after any sequence of
\* stores, trims and clears; after clear_channel(name) it is zero.
C27_UsageIsSumOfRetained ==
    /\ \A ch \in StorageChannels : TrackedIsRetained(ch)
    /\ lastOp.op = "ClearChannel" => GetChannelMemoryUsage(MemoryTracker, lastOp.name) = 0

\* the same while no clear operation has been called
C27_WithoutClear ==
    opCount = 0 => \A ch \in StorageChannels : TrackedIsRetained(ch)

(***************************************************************************)
(* The token count against the burst capacity.  A is registered with the   *)
(* default rate limit and A.B below it with no rate limit of its own, so   *)
(* that it takes A's; UpdateChannelConfig then gives A another rate limit. *)
(***************************************************************************)
LowRateConfig ==
    [DefaultConfig EXCEPT !.RateLimit = [TokensPerSecond |-> 5, BurstCapacity |-> 5]]

InheritedRateConfig == [DefaultConfig EXCEPT !.RateLimit = Unconfigured]

InitBurst ==
    /\ \E reg \in {RegisterChannel(RegisterChannel(NewRegistry, A, DefaultConfig),
                                   AB, InheritedRateConfig)} :
          /\ ChannelConfigs = reg.cfg
          /\ ChannelStates = reg.st
    /\ RegistryLock = "free"
    /\ blocked = {}
    /\ now = 1
    /\ calls = << >>
    /\ lastOp = NoOp
    /\ opCount = 0
    /\ NoPipeline

NextBurst ==
    \/ \E n \in {A, AB} : CanChannelLogCall(n, Message)
    \/ \E c \in {DefaultConfig, LowRateConfig} : CallUpdateChannelConfig(A, c)
    \/ Tick

SpecBurst == InitBurst /\ [][NextBurst]_vars

\* the bucket of the channel has been used
BucketUsed(ChannelName) == ChannelStates[ChannelName].LastRefillTime # 0

TokensWithinBurst(ChannelName) ==
    /\ ChannelStates[ChannelName].CurrentTokens >= 0
    /\ ChannelStates[ChannelName].CurrentTokens
           <= ChannelStates[ChannelName].EffectiveRateLimit.BurstCapacity * Token

\* C29: after the first use of its bucket, a channel's token count is in
\* every reachable state between 0 and the channel's current effective
\* burst capacity, also after a config change or an inheritance
\* recomputation has lowered the burst capacity.
C29_TokensWithinBurst ==
    \A ch \in DOMAIN ChannelStates : BucketUsed(ch) => TokensWithinBurst(ch)

\* the same while the configuration has not been changed
C29_UnchangedConfig ==
    opCount = 0 => \A ch \in DOMAIN ChannelStates : BucketUsed(ch) => TokensWithinBurst(ch)

(***************************************************************************)
(* Denied calls and the bucket.  A, registered with a minimum severity of  *)
(* Critical, is switched off and on and asked at two severities while time *)
(* passes.                                                                 *)
(***************************************************************************)
MaxDeniedCalls == 4

SevereOnlyConfig == [DefaultConfig EXCEPT !.MinVerbosity = Critical]

InitDenied ==
    /\ \E reg \in {RegisterChannel(NewRegistry, A, SevereOnlyConfig)} :
          /\ ChannelConfigs = reg.cfg
          /\ ChannelStates = reg.st
    /\ RegistryLock = "free"
    /\ blocked = {}
    /\ now = 1
    /\ calls = << >>
    /\ lastOp = NoOp
    /\ opCount = 0
    /\ NoPipeline

NextDenied ==
    \/ \E b \in BOOLEAN : CallSetChannelEnabled(A, b, FALSE)
    \/ \E v \in {Message, Critical} :
          Len(calls) < MaxDeniedCalls /\ CanChannelLogCall(A, v)
    \/ Tick

SpecDenied == InitDenied /\ [][NextDenied]_vars

\* the call was denied by the test of the enabled flag and the severity
DeniedAtGate(c) == c.known /\ ~GatePass(c)

BucketUntouched(c) ==
    /\ c.after.CurrentTokens = c.before.CurrentTokens
    /\ c.after.LastRefillTime = c.before.LastRefillTime

\* the call left fewer tokens in a bucket in use than it found
TookToken(c) ==
    c.before.LastRefillTime # 0 /\ c.after.CurrentTokens < c.before.CurrentTokens

\* C30: a can_log call denied because the channel is disabled or the
\* severity is below the effective minimum leaves the channel's token count
\* and last-refill time unchanged; a token is taken only by a call that
\* returns true.
C30_DeniedLeavesBucket ==
    \A i \in 1..Len(calls) :
        /\ DeniedAtGate(calls[i]) => ~calls[i].ok /\ BucketUntouched(calls[i])
        /\ TookToken(calls[i]) => calls[i].ok

\* a call was admitted and took a token; later, with time passed since the
\* last refill and the bucket below its capacity, one call was denied for
\* the disabled channel and one for its severity
C30_Witness ==
    \E i, j, k \in 1..Len(calls) :
        /\ calls[i].ok /\ TookToken(calls[i])
        /\ i < j /\ i < k
        /\ DeniedAtGate(calls[j]) /\ ~calls[j].before.bEffectiveEnabled
        /\ DeniedAtGate(calls[k]) /\ calls[k].before.bEffectiveEnabled
        /\ \A m \in {j, k} :
              /\ calls[m].before.LastRefillTime # 0
              /\ calls[m].t > calls[m].before.LastRefillTime
              /\ calls[m].before.CurrentTokens
                     < calls[m].before.EffectiveRateLimit.BurstCapacity * Token

(***************************************************************************)
(* Progress of the ingestion queue.  The steps are those of SpecProducers; *)
(* the scheduler is fair to the Log Processor and to a producer inside a   *)
(* call of the log API: a thread that can take a step eventually takes     *)
(* one.  That a thread calls the API at all is not assumed.  The wait of   *)
(* the processor is FEvent::Wait(1 ms): ProcessorWait is enabled whether   *)
(* the event is set or not.                                                *)
(***************************************************************************)
ProducerStep(t) ==
    \/ ProducerStore(t)
    \/ ProducerEnqRead(t)
    \/ ProducerEnqHead(t)
    \/ ProducerEnqLink(t)
    \/ ProducerEnqueued(t)

MaxProgressLogs == 1

NextProgress ==
    \/ \E t \in Producers : ProducerAdmit(t, Gameplay, Message, MaxProgressLogs)
    \/ \E t \in Producers : ProducerStep(t)
    \/ ProcessorStep

SpecProgress ==
    /\ InitProducers
    /\ [][NextProgress]_vars
    /\ WF_vars(ProcessorStep)
    /\ \A t \in Producers : WF_vars(ProducerStep(t))

\* one producer: the game thread alone calls the API
NextOneProducer ==
    \/ ProducerAdmit(GameThread, Gameplay, Message, MaxProducerLogs)
    \/ ProducerStep(GameThread)
    \/ ProcessorStep

SpecOneProducer ==
    /\ InitProducers
    /\ [][NextOneProducer]_vars
    /\ WF_vars(ProcessorStep)
    /\ WF_vars(ProducerStep(GameThread))

\* the most entries the threads of the specification enqueue
MaxEnqueued == Cardinality(Producers) * MaxProducerLogs

\* Enqueue has returned true for an i-th time
Enqueued(i) == Len(hist.enqueued) >= i

\* the Log Processor has handed the entry enqueued i-th to ProcessLogEntry
Processed(i) == Enqueued(i) /\ hist.enqueued[i] \in Range(hist.processed)

\* the entries of one thread were processed in the order of its calls
ProcessedInCallOrder ==
    \A a, b \in 1..Len(hist.processed) :
        (a < b /\ hist.processed[a][1] = hist.processed[b][1]) =>
            hist.processed[a][2] < hist.processed[b][2]

\* the enqueue raised the wake event while the processor, having seen the
\* queue empty, had not yet begun to wait
WakeBeforeWait ==
    /\ LogProcessor.pc = "wait"
    /\ LogProcessor.WakeUpEvent
    /\ ~IsEmpty(LogMessageQueue)

\* C31: while the Log Processor runs, every entry successfully enqueued is
\* eventually dequeued and handed to storage under fair scheduling, also
\* when the wake signal of the enqueue comes just before the processor
\* starts to wait; the entries of one thread are processed in the order in
\* which it logged them.
C31_EnqueuedEventuallyProcessed ==
    /\ \A i \in 1..MaxEnqueued : Enqueued(i) ~> Processed(i)
    /\ []ProcessedInCallOrder

\* the entry enqueued while the processor was on its way to the wait has
\* been processed
C31_Witness ==
    /\ hist.enqueued # << >>
    /\ \A i \in 1..Len(hist.enqueued) : Processed(i)
    /\ LogProcessor.pc = "wait"

(***************************************************************************)
(* The File Writer's batches.  The game thread logs to two channels, the   *)
(* Log Processor forwards the lines and the File Writer writes them; a     *)
(* CreateFileWriter may fail.                                              *)
(***************************************************************************)
MaxBatchLogs == 3

NextBatch ==
    \/ \E ch \in {Gameplay, Subsystem} : LogCall(GameThread, ch, Message, MaxBatchLogs)
    \/ ProcessorStep
    \/ WriterLoop
    \/ WriterWork
    \/ WriterCheckEmpty
    \/ WriterWait

SpecBatch == InitWriter /\ [][NextBatch]_vars

\* the lines of the entries of s that go to FilePath, in the order of s
LinesFor(s, FilePath) ==
    LET OfPath == SelectSeq(s, LAMBDA e : e.FilePath = FilePath)
    IN [i \in 1..Len(OfPath) |-> OfPath[i].LogLine]

LinesOn(Files, FilePath) ==
    IF FilePath \in DOMAIN Files THEN Files[FilePath].Lines ELSE << >>

\* a is b with some of its members left out
RECURSIVE IsSubsequence(_, _)
IsSubsequence(a, b) ==
    IF a = << >> THEN TRUE
    ELSE IF b = << >> THEN FALSE
    ELSE IF Head(a) = Head(b) THEN IsSubsequence(Tail(a), Tail(b))
    ELSE IsSubsequence(a, Tail(b))

\* every file holds lines forwarded for it, in the order they were enqueued
WrittenInEnqueueOrder ==
    \A p \in DOMAIN Disk : IsSubsequence(Disk[p].Lines, LinesFor(hist.forwarded, p))

\* the entries the next ProcessWriteQueue takes from the queue
NextWriteBatch == SubSeq(QItems(FileWriteQueue), 1,
                         Min(DEFAULT_BATCH_SIZE, Len(QItems(FileWriteQueue))))

\* this step of the File Writer has processed a batch
BatchProcessed ==
    FileWriter'.Diagnostics.BatchCount = FileWriter.Diagnostics.BatchCount + 1

\* the batch has reached every path in one piece, its lines in queue order
\* behind what the file held, or not at all; there were as many calls of
\* WriteToFile as the batch has paths
OneAppendPerPath ==
    LET Paths == {NextWriteBatch[i].FilePath : i \in 1..Len(NextWriteBatch)}
        Appended == {p \in Paths : LinesOn(Disk', p) # LinesOn(Disk, p)}
    IN /\ \A p \in Appended :
              LinesOn(Disk', p) = LinesOn(Disk, p) \o LinesFor(NextWriteBatch, p)
       /\ FileWriter'.Diagnostics.WriteCount
              = FileWriter.Diagnostics.WriteCount + Cardinality(Appended)
       /\ FileWriter'.Diagnostics.FailedWrites
              = FileWriter.Diagnostics.FailedWrites + Cardinality(Paths \ Appended)

\* C32: for each destination path the File Writer appends the lines to the
\* file in the order in which they were enqueued, with at most one append
\* write per path for each batch it processes.
C32_OneOrderedAppendPerPath ==
    /\ []WrittenInEnqueueOrder
    /\ [][BatchProcessed => OneAppendPerPath]_vars

\* one batch has been written with two calls of WriteToFile: two lines to
\* one file, one line to another
C32_Witness ==
    /\ FileWriter.Diagnostics.BatchCount = 1
    /\ FileWriter.Diagnostics.WriteCount = 2
    /\ \E p, q \in DOMAIN Disk : Len(Disk[p].Lines) = 2 /\ Len(Disk[q].Lines) = 1

\* in this step of the File Writer a CreateFileWriter returned no archive
OpenFailed ==
    FileWriter'.Diagnostics.FailedWrites > FileWriter.Diagnostics.FailedWrites

\* the paths of the batch whose file is as it was
NotWritten ==
    {p \in {NextWriteBatch[i].FilePath : i \in 1..Len(NextWriteBatch)} :
        LinesOn(Disk', p) = LinesOn(Disk, p)}

\* the failure is counted once for each path that could not be opened, the
\* lines of the batch are gone from the queue, the other paths of the batch
\* have their lines, only their writes are counted, and the thread goes on
FailureIsContained ==
    LET Paths == {NextWriteBatch[i].FilePath : i \in 1..Len(NextWriteBatch)}
    IN /\ NotWritten # {}
       /\ FileWriter'.Diagnostics.FailedWrites
              = FileWriter.Diagnostics.FailedWrites + Cardinality(NotWritten)
       /\ QItems(FileWriteQueue')
              = SubSeq(QItems(FileWriteQueue), Len(NextWriteBatch) + 1,
                       Len(QItems(FileWriteQueue)))
       /\ \A p \in Paths \ NotWritten :
              LinesOn(Disk', p) = LinesOn(Disk, p) \o LinesFor(NextWriteBatch, p)
       /\ FileWriter'.Diagnostics.WriteCount
              = FileWriter.Diagnostics.WriteCount + Cardinality(Paths \ NotWritten)
       /\ FileWriter'.OpenFiles = FileWriter.OpenFiles \cup (Paths \ NotWritten)
       /\ FileWriter'.pc = "check"
       /\ FileWriter'.bStopRequested = FileWriter.bStopRequested

NextTracked ==
    \/ HalfDayPasses
    \/ LogFileWritten(Gameplay)
    \/ PerformCleanup
    \/ RotateDeactivate(Gameplay)
    \/ RotateRegister
    \/ RotateActivate

SpecTracked == InitRetention /\ [][NextTracked]_vars

\* the paths of the FULMLogFileInfo records the tracker holds
TrackedPaths(rot) ==
    UNION {{rot.ChannelFiles[c][i].FilePath : i \in DOMAIN rot.ChannelFiles[c]} :
              c \in DOMAIN rot.ChannelFiles}

\* the files this step removes from the directory; PerformCleanup is the
\* one step that removes a file
DeletedFiles == {p \in DOMAIN Disk : p \notin DOMAIN Disk'}

\* C34: when a retention pass deletes a log file, the tracked LogFileInfo
\* record of that file is removed: after the pass the tracker holds no
\* record of a deleted file.
C34_DeletedFilesUntracked ==
    [][DeletedFiles # {} => DeletedFiles \cap TrackedPaths(LogRotator') = {}]_vars

\* C40: a retention cleanup pass never deletes the file that is a channel's
\* active file, the path that the lookup returns and the writer appends to.
C40_ActiveFileKept ==
    [][DeletedFiles # {} =>
          GetActiveFilePath(LogRotator, Gameplay, now) \notin DeletedFiles]_vars

(***************************************************************************)
(* The logging macros.  ULM_LOG asks the thread's cache of channel states  *)
(* before it calls ULMLogMessage; the cache is emptied when five seconds   *)
(* have passed since it was last emptied.                                  *)
(***************************************************************************)

MaxMacroLogs == 3

MaxCacheSeconds == 7

\* ULMInternal::FCachedChannelState()
InvalidCachedState ==
    [bEnabled |-> FALSE, MinVerbosity |-> Message, MaxLogEntries |-> 1000,
     bIsValid |-> FALSE]

\* ULMInternal::FCachedChannelState(const FULMChannelState&)
CachedStateOf(State) ==
    [bEnabled |-> State.bEffectiveEnabled, MinVerbosity |-> State.EffectiveMinVerbosity,
     MaxLogEntries |-> State.EffectiveMaxEntries, bIsValid |-> TRUE]

\* the thread_local ChannelStateCache, LastCacheFlush and LastRegistryPtr
\* (nullptr: FALSE) of a thread that has called no macro
NewThreadCache ==
    [ChannelStateCache |-> << >>, LastCacheFlush |-> 0, LastRegistryPtr |-> FALSE]

\* ULMInternal::GetCachedChannelState with GULMChannelRegistry set
GetCachedChannelState(cache, reg, ChannelName, CurrentTime) ==
    LET flushed ==
            IF ~cache.LastRegistryPtr
               \/ CurrentTime - cache.LastCacheFlush > 5 * TicksPerSecond
            THEN [ChannelStateCache |-> << >>, LastCacheFlush |-> CurrentTime,
                  LastRegistryPtr |-> TRUE]
            ELSE cache
    IN IF ChannelName \in DOMAIN flushed.ChannelStateCache
       THEN [ok |-> flushed.ChannelStateCache[ChannelName].bIsValid,
             OutState |-> flushed.ChannelStateCache[ChannelName],
             cache |-> flushed]
       ELSE IF ChannelName \in DOMAIN reg.st
       THEN [ok |-> TRUE,
             OutState |-> CachedStateOf(reg.st[ChannelName]),
             cache |-> [flushed EXCEPT !.ChannelStateCache =
                           Put(@, ChannelName, CachedStateOf(reg.st[ChannelName]))]]
       ELSE [ok |-> FALSE,
             OutState |-> InvalidCachedState,
             cache |-> [flushed EXCEPT !.ChannelStateCache =
                           Put(@, ChannelName, InvalidCachedState)]]

\* ULM_LOG(Channel, Verbosity, ...) on thread t.  able: a CanChannelLog of
\* the registry as it is would return true
ULM_LOG(t, ChannelName, Verbosity) ==
    /\ Threads[t].pc = "idle"
    /\ Threads[t].n < MaxMacroLogs
    /\ RegistryLock = "free"
    /\ \E g \in {GetCachedChannelState(Threads[t].Cache, Registry, ChannelName, now)} :
       \E r \in {ULMLogMessage(Registry, LogMessageQueue, QueueDiagnostics,
                               QueueEntryOf(t, Threads[t].n + 1, ChannelName,
                                            Verbosity, now), now)} :
       \E pass \in {g.ok /\ g.OutState.bEnabled
                         /\ Verbosity >= g.OutState.MinVerbosity} :
          /\ Threads' = [Threads EXCEPT ![t].n = @ + 1, ![t].Cache = g.cache]
          /\ ChannelStates' = IF pass THEN r.reg.st ELSE ChannelStates
          /\ LogMessageQueue' = IF pass THEN r.q ELSE LogMessageQueue
          /\ QueueDiagnostics' = IF pass THEN r.qd ELSE QueueDiagnostics
          /\ lastOp' = [op |-> "ULM_LOG", name |-> ChannelName, arg |-> Verbosity,
                        done |-> TRUE, gate |-> pass,
                        admitted |-> pass /\ r.admitted,
                        able |-> CanChannelLog(Registry, ChannelName, Verbosity,
                                               now).ok]
    /\ UNCHANGED <<ChannelConfigs, RegistryLock, blocked, now, calls, opCount,
                   LogEntries, MemoryTracker, bFileLoggingEnabled, FileWriteQueue,
                   LogProcessor, FileWriter, Disk, LogRotator, Lifecycle, hist>>

\* a second of FPlatformTime::Seconds() passes
SecondPasses ==
    /\ now < MaxCacheSeconds * TicksPerSecond
    /\ now' = now + TicksPerSecond
    /\ UNCHANGED <<regVars, obsVars, pipeVars>>

InitMacro ==
    /\ ChannelConfigs = NewRegistry.cfg
    /\ ChannelStates = NewRegistry.st
    /\ RegistryLock = "free"
    /\ blocked = {}
    /\ now = TicksPerSecond
    /\ calls = << >>
    /\ lastOp = NoOp
    /\ opCount = 0
    /\ LogMessageQueue = NewQueue
    /\ QueueDiagnostics = NewQueueDiagnostics
    /\ LogEntries = << >>
    /\ MemoryTracker = NewMemoryTracker(DefaultMemoryBudget)
    /\ bFileLoggingEnabled = FALSE
    /\ FileWriteQueue = NewQueue
    /\ LogProcessor = NewLogProcessor
    /\ FileWriter = NewFileWriter(FALSE, 1)
    /\ Disk = << >>
    /\ LogRotator = NewLogRotator
    /\ Threads = [t \in {GameThread} |->
                    [pc |-> "idle", n |-> 0, Cache |-> NewThreadCache]]
    /\ Lifecycle = "running"
    /\ hist = NoHistory

NextMacro ==
    \/ \E c \in {DefaultConfig, [DefaultConfig EXCEPT !.bEnabled = FALSE]} :
          CallRegisterChannel(A, c)
    \/ \E b \in BOOLEAN : CallSetChannelEnabled(A, b, FALSE)
    \/ \E v \in {Message, Critical} : ULM_LOG(GameThread, A, v)
    \/ SecondPasses

SpecMacro == InitMacro /\ [][NextMacro]_vars

\* the last registry operation was a register_channel or a
\* set_channel_enabled(true) of the channel, and it has returned
EnablingCompleted ==
    /\ lastOp.op = "register" \/ (lastOp.op = "set_enabled" /\ lastOp.arg = TRUE)
    /\ lastOp.done

\* C35: a per-thread cached channel state is not used once the registry
\* state of the channel has changed: the first macro call for the channel
\* after a completed register_channel or set_channel_enabled(true), with a
\* verbosity and a token that the registry accepts, is admitted.
C35_NoStaleCachedState ==
    [][(/\ EnablingCompleted
        /\ lastOp'.op = "ULM_LOG"
        /\ lastOp'.name = lastOp.name
        /\ lastOp'.able) => lastOp'.admitted]_vars

\* C36: no registry operation tries to take the registry's write lock while
\* its own thread holds it: no caller is ever left waiting for the lock it
\* holds itself.
C36_NoNestedWriteLock == "caller" \notin blocked /\ RegistryLock # "caller"

\* C37: parent and child links of the registry agree: a registered channel
\* whose parent is registered is in the child set of that parent, and every
\* name of a child set is a registered channel whose parent is the owner of
\* the set.
C37_LinksAgree ==
    \A c \in DOMAIN ChannelStates :
        /\ Registered(ChannelStates[c].ParentChannel) =>
               c \in Range(ChannelStates[ChannelStates[c].ParentChannel].ChildChannels)
        /\ \A k \in Range(ChannelStates[c].ChildChannels) :
               Registered(k) /\ ChannelStates[k].ParentChannel = c

(***************************************************************************)
(* CanChannelLog in two steps.  GetChannelState returns the raw pointer    *)
(* and releases the read lock; CanLog is then called through the pointer   *)
(* with no lock held.  The registry operations are those that destroy a    *)
(* state object: RegisterChannel Emplaces a new TUniquePtr over the one of *)
(* a registered name, UnregisterChannel Removes it.                        *)
(***************************************************************************)

MaxPointerCalls == 3

\* the FULMChannelState* GetChannelState returns for a registered name: the
\* object the registry owned when opCount operations had been made
StatePointer(ChannelName) == [name |-> ChannelName, epoch |-> opCount]

\* the object is still the one the registry owns for the name: the name was
\* registered when the pointer was taken, so any operation made since has
\* replaced or removed the object
Owned(p) == p.name \in DOMAIN ChannelStates /\ opCount = p.epoch

\* CanChannelLog: State = GetChannelState(ChannelName), under the read lock
CanLogGetState(t, ChannelName, Verbosity) ==
    /\ Threads[t].pc = "idle"
    /\ Threads[t].n < MaxPointerCalls
    /\ RegistryLock = "free"
    /\ Threads' = [Threads EXCEPT
                     ![t].n = @ + 1,
                     ![t].pc = IF ChannelName \in DOMAIN ChannelStates
                               THEN "canLog" ELSE "idle",
                     ![t].State = IF ChannelName \in DOMAIN ChannelStates
                                  THEN StatePointer(ChannelName) ELSE NoItem,
                     ![t].Verbosity = Verbosity,
                     ![t].ok = FALSE]
    /\ UNCHANGED <<regVars, now, obsVars, LogMessageQueue, QueueDiagnostics,
                   LogEntries, MemoryTracker, bFileLoggingEnabled, FileWriteQueue,
                   LogProcessor, FileWriter, Disk, LogRotator, Lifecycle, hist>>

\* CanChannelLog: State->CanLog(Verbosity, CurrentTime), no lock held.  On
\* a destroyed object the call reads and writes freed memory: it returns
\* either value, and its writes are lost or land in the object that has
\* taken the place of the old one.
CanLogThroughPointer(t) ==
    /\ Threads[t].pc = "canLog"
    /\ \E r \in {CanChannelLog(Registry, Threads[t].State.name,
                               Threads[t].Verbosity, now)} :
          IF Owned(Threads[t].State)
          THEN /\ ChannelStates' = r.reg.st
               /\ Threads' = [Threads EXCEPT ![t].pc = "idle", ![t].ok = r.ok]
               /\ hist' = hist
          ELSE /\ ChannelStates' \in {ChannelStates, r.reg.st}
               /\ \E ok \in BOOLEAN :
                     Threads' = [Threads EXCEPT ![t].pc = "idle", ![t].ok = ok]
               /\ hist' = [hist EXCEPT !.useAfterFree = TRUE]
    /\ UNCHANGED <<ChannelConfigs, RegistryLock, blocked, now, obsVars,
                   LogMessageQueue, QueueDiagnostics, LogEntries, MemoryTracker,
                   bFileLoggingEnabled, FileWriteQueue, LogProcessor, FileWriter,
                   Disk, LogRotator, Lifecycle>>

InitPointer ==
    /\ \E reg \in {RegisterChannel(NewRegistry, A, DefaultConfig)} :
          /\ ChannelConfigs = reg.cfg
          /\ ChannelStates = reg.st
    /\ RegistryLock = "free"
    /\ blocked = {}
    /\ now = 1
    /\ calls = << >>
    /\ lastOp = NoOp
    /\ opCount = 0
    /\ LogMessageQueue = NewQueue
    /\ QueueDiagnostics = NewQueueDiagnostics
    /\ LogEntries = << >>
    /\ MemoryTracker = NewMemoryTracker(DefaultMemoryBudget)
    /\ bFileLoggingEnabled = FALSE
    /\ FileWriteQueue = NewQueue
    /\ LogProcessor = NewLogProcessor
    /\ FileWriter = NewFileWriter(FALSE, 1)
    /\ Disk = << >>
    /\ LogRotator = NewLogRotator
    /\ Threads = [t \in {GameThread} |->
                    [pc |-> "idle", n |-> 0, State |-> NoItem,
                     Verbosity |-> Message, ok |-> FALSE]]
    /\ Lifecycle = "running"
    /\ hist = NoHistory

NextPointer ==
    \/ \E v \in {Message, Critical} : CanLogGetState(GameThread, A, v)
    \/ CanLogThroughPointer(GameThread)
    \/ \E c \in {DefaultConfig, SevereOnlyConfig} : CallRegisterChannel(A, c)
    \/ CallUnregisterChannel(A)
    \/ Tick

SpecPointer == InitPointer /\ [][NextPointer]_vars

\* C38: a can_log call neither reads nor writes a channel state object that
\* has been removed or replaced in the registry: while a call holds the
\* pointer GetChannelState gave it, the registry still owns that object, and
\* no call has gone through a pointer to a destroyed object.
C38_StateOwnedDuringCall ==
    /\ \A t \in DOMAIN Threads :
           Threads[t].pc = "canLog" => Owned(Threads[t].State)
    /\ ~hist.useAfterFree

(***************************************************************************)
(* Logging with no channel given.  UULMSubsystem::LogMessage names the     *)
(* channel "Default" when the caller gives none; the registry registers    *)
(* that channel in its constructor.                                        *)
(***************************************************************************)

MaxRetainLogs == 3

InitRetain == InitSubsystem(DefaultConfig, FALSE, TRUE, {GameThread})

NextRetain ==
    \/ \E ch \in {DefaultName, Gameplay} :
          LogCall(GameThread, ch, Message, MaxRetainLogs)
    \/ ProcessorLoop
    \/ ProcessBatchStep
    \/ ProcessorCheckEmpty
    \/ ProcessorWait

SpecRetain == InitRetain /\ [][NextRetain]_vars

\* the messages of the entries the store holds for the channel
StoredMessages(ChannelName) ==
    IF ChannelName \in DOMAIN LogEntries
    THEN {LogEntries[ChannelName][i].Message : i \in DOMAIN LogEntries[ChannelName]}
    ELSE {}

\* C39: every entry that log admitted and enqueued for a registered channel,
\* "Default" included, is in the store of that channel once the processor
\* has handled it (the memory budget is never reached here).
C39_ProcessedIsRetained ==
    \A i \in 1..Len(hist.logCalls) :
        (/\ hist.logCalls[i].enqueued
         /\ hist.logCalls[i].ch \in DOMAIN ChannelStates
         /\ hist.logCalls[i].entry.Message \in Range(hist.processed)) =>
            hist.logCalls[i].entry.Message \in StoredMessages(hist.logCalls[i].ch)

\* the same for the channels of the master list
C39_MasterListChannels ==
    \A i \in 1..Len(hist.logCalls) :
        (/\ hist.logCalls[i].enqueued
         /\ IsChannelInMasterList(hist.logCalls[i].ch)
         /\ hist.logCalls[i].entry.Message \in Range(hist.processed)) =>
            hist.logCalls[i].entry.Message \in StoredMessages(hist.logCalls[i].ch)

=============================================================================
